---- MODULE Spec2Model ----
(***************************************************************************)
(* Rules engine of killer-queen: combat resolution (players_attack),       *)
(* knockback application, queen-death bookkeeping and the military win     *)
(* check, as scheduled by PlayerPlugin in one run of the Update schedule;  *)
(* the berry economy (grab, deposit, economic win), the gates (claim,      *)
(* promotion timer) and the ship (boarding, travel, ship win) over several *)
(* runs of the schedule.                                                   *)
(*                                                                         *)
(* Entities are looked up through queries; a despawned entity fails the    *)
(* lookup.  Commands issued by a system are queued and applied at a later  *)
(* synchronisation point, so every iteration of a system's event loop      *)
(* reads the components as they were when the system started.              *)
(***************************************************************************)
EXTENDS Integers, Sequences, FiniteSets, TLC

VARIABLES
    players,            \* entity -> components of the Player entity (or Despawned)
    ship_team,          \* Option<Team> of the ship entity
    free_berries,       \* berries spawned into the world by remove_player
    queen_deaths,       \* resource QueenDeaths
    game_settings,      \* resource GameSettings
    collision_events,   \* Events<CollisionEvent> of this tick
    attack_cursor,      \* players_attack's EventReader position
    commands,           \* Commands queued and not yet applied
    ev_knockback,       \* Events<KnockBackEvent> not yet read
    ev_spawn_players,   \* Events<SpawnPlayerEvent> not yet read
    ev_win,             \* Events<WinEvent> written and not yet read
    pending,            \* systems of the Update schedule that have not run yet
    berries_collected,  \* resource BerriesCollected
    berry_cells,        \* entity -> components of the BerryCell entity
    berries,            \* entity -> the free berry of a bunch (or Despawned)
    gates,              \* entity -> Option<Team> of the Gate entity
    ship_x,             \* translation.x of the ship entity
    tick,               \* runs of the Update schedule completed
    state,              \* resource State<GameState>
    next_state,         \* resource NextState<GameState>
    joined_players,     \* resource JoinedPlayers: gamepad -> entity
    spawners,           \* the DelayedPlayerSpawner entities (or Despawned)
    next_game_timers,   \* the NextGameTimer entities (or Despawned)
    win_texts,          \* the WinText entities (or Despawned)
    contact_force_events,   \* Events<ContactForceEvent> of this tick
    respawn_berries_ev  \* updates of Events<RespawnBerriesEvent> its events survive

vars == <<players, ship_team, free_berries, queen_deaths, game_settings,
          collision_events, attack_cursor, commands, ev_knockback,
          ev_spawn_players, ev_win, pending, berries_collected, berry_cells,
          berries, gates, ship_x, tick, state, next_state, joined_players,
          spawners, next_game_timers, win_texts, contact_force_events,
          respawn_berries_ev>>

\* the state of the berry economy, the gates and the ship
round_vars == <<berries_collected, berry_cells, berries, gates, ship_x, tick>>

\* the match state, the controllers and the events of the other plugins
match_vars == <<state, next_state, joined_players, contact_force_events,
                respawn_berries_ev>>

\* the timer and text entities that commands spawn and despawn
spawn_vars == <<spawners, next_game_timers, win_texts>>

----------------------------------------------------------------------------
(* Program constants (player.rs) *)

PLAYER_FLY_IMPULSE == 55
RESPAWN_DELAY == 2
WORKER_RENDER_WIDTH == 40
WORKER_RENDER_HEIGHT == 40
QUEEN_RENDER_WIDTH == 60
QUEEN_RENDER_HEIGHT == 60
\* the literal 3 of check_for_queen_death_win
QUEEN_DEATHS_TO_WIN == 3
\* GameSettings::default().queen_lives
DEFAULT_QUEEN_LIVES == 3

----------------------------------------------------------------------------
(* Bounds of the model *)

\* x-translations are 0..MaxX steps of WORKER_RENDER_WIDTH / 2
MaxX == 1
\* y-translations are 0..MaxY steps of 2 * WORKER_RENDER_HEIGHT
MaxY == 1
\* collision events delivered in one tick
MaxEvents == 1
\* largest queen-death count a tick starts with under SpecWin
MaxDeaths == 4
\* largest queen_lives setting under SpecWin (the slider allows 1..=15)
MaxQueenLives == 4

Team == {"Yellow", "Purple"}
Direction == {"Left", "Right"}
NoTeam == "NoTeam"

PlayerEntity == {"p1", "p2"}
ShipEntity == "ship"
WallEntity == "wall"

Gamepad == [p1 |-> 1, p2 |-> 2, p3 |-> 3]

Despawned == [exists |-> FALSE]

Abs(n) == IF n < 0 THEN -n ELSE n

----------------------------------------------------------------------------
(* players_attack: the resolution of one collision-start event.  A result  *)
(* is [killed, knockbacks]: killed holds the entity of                     *)
(* killed_player_components (or nothing), knockbacks the KnockBackEvents   *)
(* sent while resolving.                                                   *)

NoKill == <<>>

\* players.get(entity) of a query over With<Player>
IsPlayer(ps, e) == e \in DOMAIN ps /\ ps[e].exists

\* mutant: the same-team check is missing
same_team_never(p1, p2) == FALSE

\* if player1_components.3 == player2_components.3 { continue; }
same_team(p1, p2) == p1.team = p2.team

\* custom_size.x / 2.0 * PLAYER_COLLIDER_WIDTH_MULTIPLIER (0.3)
half_width(p) == ((p.custom_size.x * 3) \div 2) \div 10

\* custom_size.y / 2.0
half_height(p) == p.custom_size.y \div 2

x_diff(p1, p2) == Abs(p1.x - p2.x)

y_diff(p1, p2) == Abs(p1.y - p2.y)

one_player_on_top(p1, p2) ==
    (y_diff(p1, p2) - (half_height(p1) + half_height(p2)))
        > (x_diff(p1, p2) - (half_width(p1) + half_width(p2)))

\* (left_player_components, right_player_components)
left_right(ps, e1, e2) ==
    IF ps[e1].x < ps[e2].x THEN <<e1, e2>> ELSE <<e2, e1>>

\* mutant: the two directions are exchanged
apply_knockback_inwards(left, right) ==
    << [entity |-> left, direction |-> "Right"],
       [entity |-> right, direction |-> "Left"] >>

\* the closure apply_knockback, and the two sends of the worker branch
apply_knockback(left, right) ==
    << [entity |-> left, direction |-> "Left"],
       [entity |-> right, direction |-> "Right"] >>

\* mutant: the comparison of the y-translations is inverted
queens_vertical_inverted(ps, e1, e2) ==
    IF ps[e1].y < ps[e2].y
    THEN [killed |-> <<e2>>, knockbacks |-> <<>>]
    ELSE [killed |-> <<e1>>, knockbacks |-> <<>>]

\* both are queens, one player on top
queens_vertical(ps, e1, e2) ==
    IF ps[e1].y > ps[e2].y
    THEN [killed |-> <<e2>>, knockbacks |-> <<>>]
    ELSE [killed |-> <<e1>>, knockbacks |-> <<>>]

\* mutant: the flier behind is killed instead of the one in front
queens_facing_front_wins(ps, left, right) ==
    CASE ps[left].direction = "Right" /\ ps[right].direction = "Right" ->
            [killed |-> <<left>>, knockbacks |-> <<>>]
      [] ps[left].direction = "Left" /\ ps[right].direction = "Left" ->
            [killed |-> <<right>>, knockbacks |-> <<>>]
      [] OTHER ->
            [killed |-> NoKill, knockbacks |-> apply_knockback(left, right)]

\* neither player is diving: match (left_player_direction, right_player_direction)
queens_facing(ps, left, right) ==
    CASE ps[left].direction = "Right" /\ ps[right].direction = "Right" ->
            [killed |-> <<right>>, knockbacks |-> <<>>]
      [] ps[left].direction = "Left" /\ ps[right].direction = "Left" ->
            [killed |-> <<left>>, knockbacks |-> <<>>]
      [] OTHER ->
            \* hit swords or backs
            [killed |-> NoKill, knockbacks |-> apply_knockback(left, right)]

\* match (left_player_diving, right_player_diving)
queens_diving(ps, left, right) ==
    CASE ps[left].diving /\ ps[right].diving ->
            \* queens hit while both diving
            [killed |-> NoKill, knockbacks |-> apply_knockback(left, right)]
      [] ps[left].diving /\ ~ps[right].diving ->
            [killed |-> <<left>>, knockbacks |-> <<>>]
      [] ~ps[left].diving /\ ps[right].diving ->
            [killed |-> <<right>>, knockbacks |-> <<>>]
      [] OTHER -> queens_facing(ps, left, right)

\* both are queens, hit each other horizontally
queens_horizontal(ps, e1, e2) ==
    LET lr == left_right(ps, e1, e2)
    IN  queens_diving(ps, lr[1], lr[2])

\* mutant: the knockback does not depend on the classification
workers_hit_always(ps, e1, e2) ==
    LET lr == left_right(ps, e1, e2)
    IN  [killed |-> NoKill, knockbacks |-> apply_knockback(lr[1], lr[2])]

\* both are workers
workers_hit(ps, e1, e2) ==
    IF ~one_player_on_top(ps[e1], ps[e2])
    THEN LET lr == left_right(ps, e1, e2)
         IN  [killed |-> NoKill, knockbacks |-> apply_knockback(lr[1], lr[2])]
    ELSE [killed |-> NoKill, knockbacks |-> <<>>]

\* mutant: a flier meeting a non-flier is resolved by position like two fliers
resolve_by_position(ps, e1, e2) ==
    CASE ps[e1].wings \/ ps[e2].wings ->
            IF one_player_on_top(ps[e1], ps[e2])
            THEN queens_vertical(ps, e1, e2)
            ELSE queens_horizontal(ps, e1, e2)
      [] OTHER -> workers_hit(ps, e1, e2)

\* match (player1_has_wings, player2_has_wings)
resolve(ps, e1, e2) ==
    CASE ps[e1].wings /\ ps[e2].wings ->
            IF one_player_on_top(ps[e1], ps[e2])
            THEN queens_vertical(ps, e1, e2)
            ELSE queens_horizontal(ps, e1, e2)
      [] ps[e1].wings /\ ~ps[e2].wings ->
            [killed |-> <<e2>>, knockbacks |-> <<>>]
      [] ~ps[e1].wings /\ ps[e2].wings ->
            [killed |-> <<e1>>, knockbacks |-> <<>>]
      [] OTHER -> workers_hit(ps, e1, e2)

\* mutant: the invincibility of the killed player is not looked at
kill_is_never_dropped(p) == FALSE

\* if killed_player_invincible { continue; }
kill_is_dropped(p) == p.invincible

\* mutant: the death is counted for the other team
count_queen_death_of_killer(qd, p) ==
    IF p.queen
    THEN IF p.team = "Yellow"
         THEN [qd EXCEPT !.purple_deaths = @ + 1]
         ELSE [qd EXCEPT !.yellow_deaths = @ + 1]
    ELSE qd

\* if killed_player_is_queen { match killed_player_team { ... += 1 } }
count_queen_death(qd, p) ==
    IF p.queen
    THEN IF p.team = "Yellow"
         THEN [qd EXCEPT !.yellow_deaths = @ + 1]
         ELSE [qd EXCEPT !.purple_deaths = @ + 1]
    ELSE qd

\* join::remove_player: the commands it queues
remove_player(e, p) ==
    << [op |-> "despawn_recursive", entity |-> e] >>
    \o (IF p.berry THEN << [op |-> "spawn_berry", x |-> p.x, y |-> p.y] >> ELSE <<>>)
    \o (IF p.riding
        THEN << [op |-> "remove_team", entity |-> ShipEntity] >>
        ELSE <<>>)

\* mutant: a killed flier respawns as queen
respawn_event_by_wings(p) ==
    [team |-> p.team, is_queen |-> p.wings, gamepad |-> p.gamepad,
     delay |-> RESPAWN_DELAY, start_invincible |-> TRUE]

\* the SpawnPlayerEvent sent for a killed player
respawn_event(p) ==
    [team |-> p.team, is_queen |-> p.queen, gamepad |-> p.gamepad,
     delay |-> RESPAWN_DELAY, start_invincible |-> TRUE]

----------------------------------------------------------------------------
(* Commands: applied, in the order queued, when the system has returned *)

\* a player without the GateTimer component
NoTimer == -1

\* the entities the queued commands can change
World ==
    [players |-> players, free_berries |-> free_berries, ship_team |-> ship_team,
     berry_cells |-> berry_cells, berries |-> berries, gates |-> gates,
     spawners |-> spawners, next_game_timers |-> next_game_timers,
     win_texts |-> win_texts,
     panicked |-> FALSE]

\* the commands that panic when their entity is gone (error B0003)
InsertOps ==
    {"insert_berry", "add_child", "insert_gate_timer", "insert_wings",
     "insert_team", "insert_riding", "insert_visibility"}

EntityExists(w, e) ==
    \/ IsPlayer(w.players, e)
    \/ e = ShipEntity
    \/ e \in DOMAIN w.gates
    \/ e \in DOMAIN w.berry_cells

apply_command(w, c) ==
    CASE c.op \in InsertOps /\ ~EntityExists(w, c.entity) ->
            [w EXCEPT !.panicked = TRUE]
      [] c.op = "despawn_recursive" ->
            IF IsPlayer(w.players, c.entity)
            THEN [w EXCEPT !.players[c.entity] = Despawned]
            ELSE w
      [] c.op = "spawn_berry" ->
            [w EXCEPT !.free_berries = Append(@, [x |-> c.x, y |-> c.y])]
      [] c.op = "remove_team" ->
            IF c.entity = ShipEntity
            THEN [w EXCEPT !.ship_team = NoTeam]
            ELSE IF c.entity \in DOMAIN w.gates
                 THEN [w EXCEPT !.gates[c.entity] = NoTeam]
                 ELSE w
      [] c.op = "spawn_player" ->
            [w EXCEPT !.players = (c.entity :> c.player) @@ @]
      [] c.op = "spawn_spawner" ->
            [w EXCEPT !.spawners = Append(@, c.spawner)]
      [] c.op = "despawn_spawner" ->
            [w EXCEPT !.spawners[c.index] = Despawned]
      [] c.op = "spawn_next_game_timer" ->
            [w EXCEPT !.next_game_timers = Append(@, [exists |-> TRUE, elapsed |-> 0])]
      [] c.op = "despawn_next_game_timer" ->
            [w EXCEPT !.next_game_timers[c.index] = Despawned]
      [] c.op = "despawn_cell" ->
            [w EXCEPT !.berry_cells = [d \in DOMAIN @ \ {c.entity} |-> @[d]]]
      [] c.op = "spawn_cell" ->
            [w EXCEPT !.berry_cells =
                (c.entity :> [team |-> c.team, berry |-> FALSE, white |-> FALSE]) @@ @]
      [] c.op = "spawn_bunch_berry" ->
            [w EXCEPT !.berries = (c.entity :> [exists |-> TRUE]) @@ @]
      [] c.op = "despawn_free_berry" ->
            [w EXCEPT !.free_berries = IF @ = <<>> THEN @ ELSE Tail(@)]
      [] c.op = "spawn_win_text" ->
            [w EXCEPT !.win_texts = Append(@, [exists |-> TRUE, text |-> c.text])]
      [] c.op = "despawn_gate" ->
            [w EXCEPT !.gates = [g \in DOMAIN @ \ {c.entity} |-> @[g]]]
      [] c.op = "spawn_gate" ->
            [w EXCEPT !.gates = (c.entity :> NoTeam) @@ @]
      [] c.op = "insert_visibility" ->
            [w EXCEPT !.players[c.entity].visibility = c.visibility]
      [] c.op = "remove_invincible" ->
            IF IsPlayer(w.players, c.entity)
            THEN [w EXCEPT !.players[c.entity].invincible = FALSE]
            ELSE w
      [] c.op = "despawn" ->
            IF c.entity \in DOMAIN w.berries
            THEN [w EXCEPT !.berries[c.entity] = Despawned]
            ELSE w
      [] c.op = "insert_berry" ->
            IF IsPlayer(w.players, c.entity)
            THEN [w EXCEPT !.players[c.entity].berry = TRUE]
            ELSE IF c.entity \in DOMAIN w.berry_cells
                 THEN [w EXCEPT !.berry_cells[c.entity].berry = TRUE]
                 ELSE w
      [] c.op = "add_child" ->
            IF IsPlayer(w.players, c.entity)
            THEN [w EXCEPT !.players[c.entity].children = @ + 1]
            ELSE w
      [] c.op = "remove_berry" ->
            IF IsPlayer(w.players, c.entity)
            THEN [w EXCEPT !.players[c.entity].berry = FALSE]
            ELSE w
      [] c.op = "despawn_descendants" ->
            IF IsPlayer(w.players, c.entity)
            THEN [w EXCEPT !.players[c.entity].children = 0]
            ELSE w
      [] c.op = "insert_gate_timer" ->
            IF IsPlayer(w.players, c.entity)
            THEN [w EXCEPT !.players[c.entity].gate_timer = 0]
            ELSE w
      [] c.op = "remove_gate_timer" ->
            IF IsPlayer(w.players, c.entity)
            THEN [w EXCEPT !.players[c.entity].gate_timer = NoTimer]
            ELSE w
      [] c.op = "insert_wings" ->
            IF IsPlayer(w.players, c.entity)
            THEN [w EXCEPT !.players[c.entity].wings = TRUE]
            ELSE w
      [] c.op = "insert_team" ->
            IF c.entity = ShipEntity
            THEN [w EXCEPT !.ship_team = c.team]
            ELSE IF c.entity \in DOMAIN w.gates
                 THEN [w EXCEPT !.gates[c.entity] = c.team]
                 ELSE w
      [] c.op = "insert_riding" ->
            IF IsPlayer(w.players, c.entity)
            THEN [w EXCEPT !.players[c.entity].riding = TRUE]
            ELSE w
      [] c.op = "remove_riding" ->
            IF IsPlayer(w.players, c.entity)
            THEN [w EXCEPT !.players[c.entity].riding = FALSE]
            ELSE w

RECURSIVE apply_commands(_, _)
apply_commands(w, cmds) ==
    IF cmds = <<>> \/ w.panicked
    THEN w
    ELSE apply_commands(apply_command(w, Head(cmds)), Tail(cmds))

\* a system or a command panicked: the program has stopped
Panicked == {"panicked"}

\* the systems of PlayerPlugin's Update tuple that the model runs
Systems == {"players_attack", "apply_knockbacks", "check_for_queen_death_win"}

\* the systems of the tuple that is declared .before(players_attack), as far
\* as the model runs them
BeforeAttack == {"check_if_players_on_ground", "jump"}

\* players_attack is inside its loop over collision_events.read()
AttackInProgress == "players_attack" \in pending /\ attack_cursor > 0

----------------------------------------------------------------------------
(* players_attack: one iteration of `for collision_event in               *)
(* collision_events.read()`.  The query reads `players` as it was when the *)
(* system started: despawns are queued in `commands`.                      *)

players_attack ==
    /\ "players_attack" \in pending
    /\ pending \cap BeforeAttack = {}
    /\ attack_cursor < Len(collision_events)
    /\ attack_cursor' = attack_cursor + 1
    /\ LET ev == collision_events[attack_cursor + 1]
           e1 == ev.entity1
           e2 == ev.entity2
       IN  IF /\ ev.kind = "Started"
              /\ IsPlayer(players, e1)
              /\ IsPlayer(players, e2)
              /\ ~same_team(players[e1], players[e2])
           THEN LET r == resolve(players, e1, e2)
                IN  /\ ev_knockback' = ev_knockback \o r.knockbacks
                    /\ IF r.killed # NoKill /\ ~kill_is_dropped(players[r.killed[1]])
                       THEN LET killed == r.killed[1]
                            IN  /\ queen_deaths' =
                                       count_queen_death(queen_deaths, players[killed])
                                /\ commands' =
                                       commands \o remove_player(killed, players[killed])
                                /\ ev_spawn_players' =
                                       Append(ev_spawn_players, respawn_event(players[killed]))
                       ELSE UNCHANGED <<queen_deaths, commands, ev_spawn_players>>
           ELSE UNCHANGED <<ev_knockback, queen_deaths, commands, ev_spawn_players>>
    /\ UNCHANGED <<players, ship_team, free_berries, game_settings,
                   collision_events, ev_win, pending>>
    /\ UNCHANGED round_vars
    /\ UNCHANGED match_vars
    /\ UNCHANGED spawn_vars

\* players_attack returns once every event is read; its commands are applied
players_attack_return ==
    /\ "players_attack" \in pending
    /\ pending \cap BeforeAttack = {}
    /\ attack_cursor = Len(collision_events)
    /\ LET w == apply_commands(World, commands)
       IN  /\ players' = w.players
           /\ free_berries' = w.free_berries
           /\ ship_team' = w.ship_team
           /\ berry_cells' = w.berry_cells
           /\ berries' = w.berries
           /\ gates' = w.gates
           /\ spawners' = w.spawners
           /\ next_game_timers' = w.next_game_timers
           /\ win_texts' = w.win_texts
    /\ commands' = <<>>
    /\ pending' = IF apply_commands(World, commands).panicked
                  THEN Panicked
                  ELSE pending \ {"players_attack"}
    /\ UNCHANGED <<queen_deaths, game_settings, collision_events, attack_cursor,
                   ev_knockback, ev_spawn_players, ev_win>>
    /\ UNCHANGED <<berries_collected, ship_x, tick>>
    /\ UNCHANGED match_vars

----------------------------------------------------------------------------
(* apply_knockbacks, scheduled .after(players_attack) *)

knockback_impulse(ev) ==
    PLAYER_FLY_IMPULSE * (IF ev.direction = "Right" THEN 1 ELSE -1)

RECURSIVE knocked_back(_, _)
knocked_back(ps, evs) ==
    IF evs = <<>>
    THEN ps
    ELSE LET ev == Head(evs)
         IN  knocked_back(
                 IF IsPlayer(ps, ev.entity)
                 THEN [ps EXCEPT ![ev.entity].impulse_x = @ + knockback_impulse(ev)]
                 ELSE ps,
                 Tail(evs))

apply_knockbacks ==
    /\ "apply_knockbacks" \in pending
    /\ "players_attack" \notin pending
    /\ players' = knocked_back(players, ev_knockback)
    /\ ev_knockback' = <<>>
    /\ pending' = pending \ {"apply_knockbacks"}
    /\ UNCHANGED <<ship_team, free_berries, queen_deaths, game_settings,
                   collision_events, attack_cursor, commands, ev_spawn_players, ev_win>>
    /\ UNCHANGED round_vars
    /\ UNCHANGED match_vars
    /\ UNCHANGED spawn_vars

----------------------------------------------------------------------------
(* check_for_queen_death_win: not ordered against the other systems *)

military_wins(qd) ==
    (IF qd.yellow_deaths >= QUEEN_DEATHS_TO_WIN
     THEN << [team |-> "Purple", win_condition |-> "Military"] >>
     ELSE <<>>)
    \o (IF qd.purple_deaths >= QUEEN_DEATHS_TO_WIN
        THEN << [team |-> "Yellow", win_condition |-> "Military"] >>
        ELSE <<>>)

check_for_queen_death_win ==
    /\ "check_for_queen_death_win" \in pending
    /\ ~AttackInProgress
    /\ ev_win' = ev_win \o military_wins(queen_deaths)
    /\ pending' = pending \ {"check_for_queen_death_win"}
    /\ UNCHANGED <<players, ship_team, free_berries, queen_deaths, game_settings,
                   collision_events, attack_cursor, commands, ev_knockback,
                   ev_spawn_players>>
    /\ UNCHANGED round_vars
    /\ UNCHANGED match_vars
    /\ UNCHANGED spawn_vars

----------------------------------------------------------------------------
(* States at the start of a run of the Update schedule.  players_attack    *)
(* reads the translations only through their differences and order, and    *)
(* both orders of the pair occur as events: p1 stands at the origin and p2 *)
(* anywhere on the grid.                                                   *)

XS == {i * (WORKER_RENDER_WIDTH \div 2) : i \in 0..MaxX}
YS == {i * 2 * WORKER_RENDER_HEIGHT : i \in 0..MaxY}

\* a worker (spawn_players with is_queen false), with or without a berry
WorkerRoles ==
    {[wings |-> FALSE, queen |-> FALSE, berry |-> b, diving |-> FALSE,
      custom_size |-> [x |-> WORKER_RENDER_WIDTH, y |-> WORKER_RENDER_HEIGHT]] :
        b \in BOOLEAN}

\* a worker promoted by progress_gate_timers: Wings, no Queen, no Dive binding
FighterRoles ==
    {[wings |-> TRUE, queen |-> FALSE, berry |-> FALSE, diving |-> FALSE,
      custom_size |-> [x |-> QUEEN_RENDER_WIDTH, y |-> QUEEN_RENDER_HEIGHT]]}

\* a queen (spawn_players with is_queen true): Wings, Queen and the Dive binding
QueenRoles ==
    {[wings |-> TRUE, queen |-> TRUE, berry |-> FALSE, diving |-> d,
      custom_size |-> [x |-> QUEEN_RENDER_WIDTH, y |-> QUEEN_RENDER_HEIGHT]] :
        d \in BOOLEAN}

Roles == WorkerRoles \cup FighterRoles \cup QueenRoles

MakePlayer(e, role, team, dir, inv, x, y) ==
    [exists |-> TRUE, team |-> team, wings |-> role.wings, queen |-> role.queen,
     berry |-> role.berry, diving |-> role.diving, custom_size |-> role.custom_size,
     invincible |-> inv, direction |-> dir, x |-> x, y |-> y,
     gamepad |-> Gamepad[e], riding |-> FALSE, impulse_x |-> 0]

PlayerConfigs(e, roles, xs, ys) ==
    {MakePlayer(e, role, team, dir, inv, x, y) :
        role \in roles, team \in Team, dir \in Direction, inv \in BOOLEAN,
        x \in xs, y \in ys}

\* the collision events the physics step may deliver
Started(a, b) == [kind |-> "Started", entity1 |-> a, entity2 |-> b]
Stopped(a, b) == [kind |-> "Stopped", entity1 |-> a, entity2 |-> b]

EventAlphabet ==
    {Started(pair[1], pair[2]) :
        pair \in {q \in PlayerEntity \X PlayerEntity : q[1] # q[2]}}
        \cup {Stopped("p1", "p2"), Started("p1", WallEntity)}

EventSeqs == UNION {[1..k -> EventAlphabet] : k \in 0..MaxEvents}

\* NextState(None)
NoState == "None"

GameState == {"Join", "Play", "GameOver"}

\* JoinedPlayers of the live players ps: gamepad -> entity
joined(ps) ==
    [g \in {ps[e].gamepad : e \in {d \in DOMAIN ps : ps[d].exists}} |->
        CHOOSE e \in DOMAIN ps : ps[e].exists /\ ps[e].gamepad = g]

\* a running match: no state change requested, no respawn or restart
\* pending, no events of the other plugins
InitMatch ==
    /\ state = "Play"
    /\ next_state = NoState
    /\ joined_players = joined(players)
    /\ spawners = <<>>
    /\ next_game_timers = <<>>
    /\ win_texts = <<>>
    /\ contact_force_events = <<>>
    /\ respawn_berries_ev = 0

InitTick ==
    /\ ship_team = NoTeam
    /\ free_berries = <<>>
    /\ collision_events \in EventSeqs
    /\ attack_cursor = 0
    /\ commands = <<>>
    /\ ev_knockback = <<>>
    /\ ev_spawn_players = <<>>
    /\ ev_win = <<>>
    /\ pending = Systems
    /\ berries_collected = [yellow_berries |-> 0, purple_berries |-> 0]
    /\ berry_cells = <<>>
    /\ berries = <<>>
    /\ gates = <<>>
    /\ ship_x = 0
    /\ tick = 0

Init ==
    /\ InitTick
    /\ \E c1 \in PlayerConfigs("p1", Roles, {0}, {0}),
          c2 \in PlayerConfigs("p2", Roles, XS, YS) :
            players = [p1 |-> c1, p2 |-> c2]
    /\ queen_deaths = [yellow_deaths |-> 0, purple_deaths |-> 0]
    /\ game_settings = [queen_lives |-> DEFAULT_QUEEN_LIVES]
    /\ InitMatch

Next ==
    \/ players_attack
    \/ players_attack_return
    \/ apply_knockbacks
    \/ check_for_queen_death_win

Spec == Init /\ [][Next]_vars

\* Ticks of a running match: two opposing queens as spawn_players creates
\* them, any number of queen deaths counted so far, and any queen_lives the
\* settings window can set.
InitWin ==
    /\ InitTick
    /\ \E t \in Team, x \in XS, y \in YS :
          players =
              [p1 |-> MakePlayer("p1", CHOOSE r \in QueenRoles : ~r.diving, t,
                                 IF t = "Yellow" THEN "Left" ELSE "Right",
                                 FALSE, 0, 0),
               p2 |-> MakePlayer("p2", CHOOSE r \in QueenRoles : ~r.diving,
                                 CHOOSE u \in Team : u # t,
                                 IF t = "Yellow" THEN "Right" ELSE "Left",
                                 FALSE, x, y)]
    /\ queen_deaths \in [yellow_deaths : 0..MaxDeaths, purple_deaths : 0..MaxDeaths]
    /\ game_settings \in [queen_lives : 1..MaxQueenLives]
    /\ InitMatch

SpecWin == InitWin /\ [][Next]_vars

----------------------------------------------------------------------------
(* Vocabulary of the properties.  A step of players_attack handles the     *)
(* event Ev; what it queued and sent is the new tail of each queue.        *)

AttackStep == attack_cursor' = attack_cursor + 1

Ev == collision_events[attack_cursor + 1]

P1 == players[Ev.entity1]
P2 == players[Ev.entity2]

\* Ev is a collision-start between two live players
PlayersCollide ==
    /\ Ev.kind = "Started"
    /\ Ev.entity1 \in PlayerEntity /\ Ev.entity2 \in PlayerEntity
    /\ P1.exists /\ P2.exists

OpposingPlayersCollide == PlayersCollide /\ P1.team # P2.team

NewCommands == SubSeq(commands', Len(commands) + 1, Len(commands'))
NewKnockbacks == SubSeq(ev_knockback', Len(ev_knockback) + 1, Len(ev_knockback'))
NewSpawnEvents ==
    SubSeq(ev_spawn_players', Len(ev_spawn_players) + 1, Len(ev_spawn_players'))

\* the entities whose despawn the step queued
KilledInStep ==
    {NewCommands[i].entity :
        i \in {j \in 1..Len(NewCommands) : NewCommands[j].op = "despawn_recursive"}}

NoKillEffects ==
    /\ commands' = commands
    /\ queen_deaths' = queen_deaths
    /\ ev_spawn_players' = ev_spawn_players

\* the event last handled, in a state inside or right after the loop
LastEv == collision_events[attack_cursor]
AttackHandledOne == "players_attack" \in pending /\ attack_cursor > 0

LastPlayersCollide ==
    /\ AttackHandledOne
    /\ LastEv.kind = "Started"
    /\ LastEv.entity1 \in PlayerEntity /\ LastEv.entity2 \in PlayerEntity

L1 == players[LastEv.entity1]
L2 == players[LastEv.entity2]

----------------------------------------------------------------------------
\* C1: a collision-start between two players of the same team, whatever
\* their roles, facings, positions, dive state or invincibility, queues no
\* despawn, sends no KnockBackEvent, leaves QueenDeaths unchanged and sends
\* no SpawnPlayerEvent.
C1_SameTeamImmunity ==
    [][ (AttackStep /\ PlayersCollide /\ P1.team = P2.team)
            => (NoKillEffects /\ ev_knockback' = ev_knockback) ]_vars

\* a same-team flier and worker, the worker not invincible, have collided
C1_Witness ==
    /\ LastPlayersCollide
    /\ L1.team = L2.team
    /\ L1.wings /\ ~L2.wings /\ ~L2.invincible
    /\ commands = <<>> /\ ev_knockback = <<>>

\* C2: a player that carries Invincible is never killed by players_attack:
\* no step queues the despawn of an invincible player, and when the
\* resolution selects an invincible victim the event is dropped with no
\* despawn, no berry drop, no QueenDeaths change and no SpawnPlayerEvent.
C2_InvincibleImmunity ==
    [][ AttackStep =>
          /\ \A e \in KilledInStep : ~players[e].invincible
          /\ (OpposingPlayersCollide
                /\ resolve(players, Ev.entity1, Ev.entity2).killed # NoKill
                /\ players[resolve(players, Ev.entity1, Ev.entity2).killed[1]].invincible)
             => NoKillEffects ]_vars

\* an invincible queen under a higher opposing queen was selected and spared
C2_Witness ==
    /\ LastPlayersCollide
    /\ L1.team # L2.team
    /\ L1.queen /\ L2.queen
    /\ L1.y < L2.y /\ L1.invincible /\ ~L2.invincible
    /\ commands = <<>> /\ ev_spawn_players = <<>>
    /\ queen_deaths.yellow_deaths = 0 /\ queen_deaths.purple_deaths = 0

\* C3: in a collision-start between a flier and a non-flier of opposing
\* teams the non-flier is the one killed (unless invincible) and never the
\* flier, whatever the positions, the facings and the order of the two
\* entities in the event.
C3_FlierKillsNonFlier ==
    [][ (AttackStep /\ OpposingPlayersCollide /\ P1.wings # P2.wings) =>
          LET nonflier == IF P1.wings THEN Ev.entity2 ELSE Ev.entity1
          IN  KilledInStep = IF players[nonflier].invincible THEN {} ELSE {nonflier} ]_vars

\* a worker standing above a flier of the other team was killed by it
C3_Witness ==
    /\ LastPlayersCollide
    /\ L1.team # L2.team
    /\ ~L1.wings /\ L2.wings
    /\ L1.y > L2.y
    /\ commands # <<>> /\ commands[1] = [op |-> "despawn_recursive", entity |-> LastEv.entity1]

\* the two entities of Ev ordered by strictly smaller x-translation
LeftOfEv == IF P1.x < P2.x THEN Ev.entity1 ELSE Ev.entity2
RightOfEv == IF P1.x < P2.x THEN Ev.entity2 ELSE Ev.entity1

\* two opposing fliers collide and the collision is classified horizontal
FliersCollideHorizontally ==
    /\ OpposingPlayersCollide
    /\ P1.wings /\ P2.wings
    /\ ~one_player_on_top(P1, P2)

KnockbackCount(evs, e, d) ==
    Cardinality({i \in 1..Len(evs) : evs[i].entity = e /\ evs[i].direction = d})

\* the step sent exactly two KnockBackEvents: Left for l and Right for r
PushedApart(l, r) ==
    /\ Len(NewKnockbacks) = 2
    /\ KnockbackCount(NewKnockbacks, l, "Left") = 1
    /\ KnockbackCount(NewKnockbacks, r, "Right") = 1

\* the step killed v, or nobody when v is invincible
KillsUnlessInvincible(v) ==
    KilledInStep = IF players[v].invincible THEN {} ELSE {v}

ApplyKnockbacksStep ==
    "apply_knockbacks" \in pending /\ "apply_knockbacks" \notin pending'

----------------------------------------------------------------------------
\* C4: in a collision between two opposing fliers that is classified
\* vertical, the flier with the strictly lower y-translation is the one
\* killed (unless invincible) and the higher one survives, whatever the
\* facing and dive state of either.
C4_VerticalLowerFlierKilled ==
    [][ (AttackStep /\ OpposingPlayersCollide /\ P1.wings /\ P2.wings
            /\ one_player_on_top(P1, P2)) =>
          /\ P1.y # P2.y
          /\ KillsUnlessInvincible(IF P1.y < P2.y THEN Ev.entity1 ELSE Ev.entity2)
          /\ ev_knockback' = ev_knockback ]_vars

\* a diving queen facing its attacker was killed from above by a flier
C4_Witness ==
    /\ LastPlayersCollide
    /\ L1.team # L2.team
    /\ L1.wings /\ L2.wings
    /\ one_player_on_top(L1, L2)
    /\ L1.y > L2.y /\ L2.diving /\ ~L1.diving
    /\ commands = << [op |-> "despawn_recursive", entity |-> LastEv.entity2] >>

\* C5: a horizontal collision between two opposing non-diving fliers, the
\* left-positioned one facing Right and the right-positioned one facing
\* Left, kills nobody and sends exactly two KnockBackEvents, Left for the
\* left-positioned and Right for the right-positioned flier; apply_knockbacks
\* adds PLAYER_FLY_IMPULSE to a live player's x-impulse for every Right and
\* subtracts it for every Left event naming the player.
C5_MutualClashKnockback ==
    [][ /\ (AttackStep /\ FliersCollideHorizontally
                /\ ~P1.diving /\ ~P2.diving /\ P1.x # P2.x
                /\ players[LeftOfEv].direction = "Right"
                /\ players[RightOfEv].direction = "Left")
            => (NoKillEffects /\ PushedApart(LeftOfEv, RightOfEv))
        /\ ApplyKnockbacksStep =>
              \A e \in PlayerEntity :
                  players[e].exists =>
                      /\ players'[e].exists
                      /\ players'[e].impulse_x - players[e].impulse_x =
                            PLAYER_FLY_IMPULSE
                                * (KnockbackCount(ev_knockback, e, "Right")
                                   - KnockbackCount(ev_knockback, e, "Left")) ]_vars

\* after one clash both queens are alive, pushed apart by PLAYER_FLY_IMPULSE
C5_Witness ==
    /\ pending = {}
    /\ Len(collision_events) = 1
    /\ collision_events[1] = Started("p2", "p1")
    /\ players["p1"].exists /\ players["p2"].exists
    /\ players["p1"].team # players["p2"].team
    /\ players["p1"].queen /\ players["p2"].queen
    /\ players["p1"].x < players["p2"].x /\ players["p1"].y = players["p2"].y
    /\ players["p1"].direction = "Right" /\ players["p2"].direction = "Left"
    /\ players["p1"].impulse_x = -PLAYER_FLY_IMPULSE
    /\ players["p2"].impulse_x = PLAYER_FLY_IMPULSE
    /\ ev_spawn_players = <<>>

\* C6 as stated: in a horizontal collision between two opposing non-diving
\* fliers that is not a mutual clash a kill occurs, and the flier killed
\* faces away from the other; this covers both facing Right, both facing
\* Left and the two facing away from each other.
C6_Original ==
    [][ (AttackStep /\ FliersCollideHorizontally
            /\ ~P1.diving /\ ~P2.diving /\ P1.x # P2.x
            /\ ~P1.invincible /\ ~P2.invincible
            /\ ~(players[LeftOfEv].direction = "Right"
                    /\ players[RightOfEv].direction = "Left"))
          => /\ KilledInStep # {}
             /\ \A v \in KilledInStep :
                    players[v].direction = IF v = LeftOfEv THEN "Left" ELSE "Right" ]_vars

\* C6 (amended): in a horizontal collision between two opposing non-diving
\* fliers with distinct x-translations, a kill occurs exactly when both face
\* the same direction, and the flier killed (unless invincible) is the one
\* in front, whose back is turned to the other: the right-positioned when
\* both face Right, the left-positioned when both face Left.  When they face
\* away from each other nobody is killed and both are knocked back as in a
\* mutual clash.
C6_BackExposedKilled ==
    [][ (AttackStep /\ FliersCollideHorizontally
            /\ ~P1.diving /\ ~P2.diving /\ P1.x # P2.x) =>
          LET ldir == players[LeftOfEv].direction
              rdir == players[RightOfEv].direction
          IN  /\ (ldir = "Right" /\ rdir = "Right")
                    => (KillsUnlessInvincible(RightOfEv) /\ NewKnockbacks = <<>>)
              /\ (ldir = "Left" /\ rdir = "Left")
                    => (KillsUnlessInvincible(LeftOfEv) /\ NewKnockbacks = <<>>)
              /\ (ldir = "Left" /\ rdir = "Right")
                    => (NoKillEffects /\ PushedApart(LeftOfEv, RightOfEv)) ]_vars

\* both fliers faced Right and the right-positioned one was killed
C6_Witness ==
    /\ LastPlayersCollide
    /\ L1.team # L2.team
    /\ L1.wings /\ L2.wings /\ ~L1.diving /\ ~L2.diving
    /\ ~one_player_on_top(L1, L2)
    /\ L1.x < L2.x
    /\ L1.direction = "Right" /\ L2.direction = "Right"
    /\ commands = << [op |-> "despawn_recursive", entity |-> LastEv.entity2] >>

\* the fliers faced away from each other: nobody killed, both knocked back
C6_WitnessBackToBack ==
    /\ LastPlayersCollide
    /\ L1.team # L2.team
    /\ L1.wings /\ L2.wings /\ ~L1.diving /\ ~L2.diving
    /\ ~L1.invincible /\ ~L2.invincible
    /\ ~one_player_on_top(L1, L2)
    /\ L1.x < L2.x
    /\ L1.direction = "Left" /\ L2.direction = "Right"
    /\ commands = <<>> /\ Len(ev_knockback) = 2

\* C7 as stated: in a horizontal collision between two opposing fliers of
\* which exactly one is diving, the non-diving flier is the one despawned,
\* whatever the facings; when both are diving nobody is killed and both are
\* knocked back.
C7_DiverKills ==
    [][ (AttackStep /\ FliersCollideHorizontally) =>
          /\ (P1.diving # P2.diving) =>
                KillsUnlessInvincible(IF P1.diving THEN Ev.entity2 ELSE Ev.entity1)
          /\ (P1.diving /\ P2.diving) =>
                (NoKillEffects /\ PushedApart(LeftOfEv, RightOfEv)) ]_vars

\* what the code does, for the record: the diving flier is the one killed
C7_DiverIsKilled ==
    [][ (AttackStep /\ FliersCollideHorizontally) =>
          /\ (P1.diving # P2.diving) =>
                KillsUnlessInvincible(IF P1.diving THEN Ev.entity1 ELSE Ev.entity2)
          /\ (P1.diving /\ P2.diving) =>
                (NoKillEffects /\ PushedApart(LeftOfEv, RightOfEv)) ]_vars

\* C8: a collision between two opposing workers kills nobody and leaves
\* QueenDeaths unchanged; classified horizontal it sends exactly two
\* KnockBackEvents, Left for the left-positioned and Right for the
\* right-positioned worker; classified vertical it sends nothing.
C8_WorkersKnockback ==
    [][ (AttackStep /\ OpposingPlayersCollide /\ ~P1.wings /\ ~P2.wings) =>
          /\ NoKillEffects
          /\ one_player_on_top(P1, P2) => ev_knockback' = ev_knockback
          /\ ~one_player_on_top(P1, P2) =>
                /\ Len(NewKnockbacks) = 2
                /\ \E l, r \in {Ev.entity1, Ev.entity2} :
                      /\ l # r
                      /\ players[l].x <= players[r].x
                      /\ PushedApart(l, r) ]_vars

\* two opposing workers with berries met side by side and were pushed apart
C8_Witness ==
    /\ LastPlayersCollide
    /\ L1.team # L2.team
    /\ ~L1.wings /\ ~L2.wings /\ L1.berry /\ L2.berry
    /\ ~L1.invincible /\ ~L2.invincible
    /\ L2.x < L1.x /\ ~one_player_on_top(L1, L2)
    /\ ev_knockback = << [entity |-> LastEv.entity2, direction |-> "Left"],
                         [entity |-> LastEv.entity1, direction |-> "Right"] >>
    /\ commands = <<>>

\* two opposing workers met one above the other: nothing was sent
C8_WitnessVertical ==
    /\ LastPlayersCollide
    /\ L1.team # L2.team
    /\ ~L1.wings /\ ~L2.wings
    /\ one_player_on_top(L1, L2)
    /\ ev_knockback = <<>> /\ commands = <<>>

\* C9: when players_attack kills a non-invincible queen of team T, the death
\* counter of T rises by exactly 1 and the other counter is unchanged,
\* exactly one SpawnPlayerEvent is sent, with team T, is_queen, the queen's
\* controller, delay RESPAWN_DELAY > 0 and start_invincible, and the queen is
\* despawned when the queued commands are applied.
C9_QueenKilled ==
    [][ /\ (AttackStep /\ OpposingPlayersCollide) =>
              \A q \in {Ev.entity1, Ev.entity2} :
                  (/\ resolve(players, Ev.entity1, Ev.entity2).killed = <<q>>
                   /\ players[q].queen /\ ~players[q].invincible) =>
                      /\ KilledInStep = {q}
                      /\ queen_deaths'.yellow_deaths = queen_deaths.yellow_deaths
                            + (IF players[q].team = "Yellow" THEN 1 ELSE 0)
                      /\ queen_deaths'.purple_deaths = queen_deaths.purple_deaths
                            + (IF players[q].team = "Purple" THEN 1 ELSE 0)
                      /\ NewSpawnEvents =
                            << [team |-> players[q].team, is_queen |-> TRUE,
                                gamepad |-> players[q].gamepad,
                                delay |-> RESPAWN_DELAY, start_invincible |-> TRUE] >>
                      /\ RESPAWN_DELAY > 0
        /\ ("players_attack" \in pending /\ "players_attack" \notin pending') =>
              \A i \in 1..Len(commands) :
                  commands[i].op = "despawn_recursive" => ~players'[commands[i].entity].exists
      ]_vars

\* a Purple queen was killed from above by a Yellow queen and is gone
C9_Witness ==
    /\ "players_attack" \notin pending
    /\ collision_events = << Started("p1", "p2") >>
    /\ ~players["p1"].exists
    /\ players["p2"].exists /\ players["p2"].queen /\ players["p2"].team = "Yellow"
    /\ players["p2"].y > 0
    /\ queen_deaths = [yellow_deaths |-> 0, purple_deaths |-> 1]
    /\ ev_spawn_players =
          << [team |-> "Purple", is_queen |-> TRUE, gamepad |-> Gamepad["p1"],
              delay |-> RESPAWN_DELAY, start_invincible |-> TRUE] >>

----------------------------------------------------------------------------
Opponent(t) == IF t = "Yellow" THEN "Purple" ELSE "Yellow"

Deaths(qd, t) == IF t = "Yellow" THEN qd.yellow_deaths ELSE qd.purple_deaths

CheckWinStep ==
    "check_for_queen_death_win" \in pending
        /\ "check_for_queen_death_win" \notin pending'

NewWins == SubSeq(ev_win', Len(ev_win) + 1, Len(ev_win'))

MilitaryWinSent(t) ==
    \E i \in 1..Len(NewWins) :
        NewWins[i] = [team |-> t, win_condition |-> "Military"]

\* C10 as stated: check_for_queen_death_win sends a Military WinEvent for
\* team T exactly when the queen-death counter of the team opposing T has
\* reached GameSettings.queen_lives, for every value of queen_lives, and
\* sends none while the counter is below it.
C10_MilitaryWinAtQueenLives ==
    [][ CheckWinStep =>
          \A t \in Team :
              MilitaryWinSent(t)
                  <=> Deaths(queen_deaths, Opponent(t)) >= game_settings.queen_lives ]_vars

\* what the code does, for the record: the limit is the literal 3
C10_MilitaryWinAtThree ==
    [][ CheckWinStep =>
          \A t \in Team :
              MilitaryWinSent(t)
                  <=> Deaths(queen_deaths, Opponent(t)) >= DEFAULT_QUEEN_LIVES ]_vars

----------------------------------------------------------------------------
(* Several runs of the Update schedule.  A run starts with the collision   *)
(* events of the physics step; its systems then run in any order the       *)
(* schedule leaves open, and the queued commands are applied at a          *)
(* synchronisation point between two systems or at the end of the run.     *)

\* runs of the schedule in one behaviour
MaxTicks == 2
\* collision events the physics step delivers in one run
MaxTouches == 2
\* largest Time::delta of one run, in the model's unit of time
MaxDelta == 1

PLAYER_JUMP_IMPULSE == 35

\* the components the economy, gate and ship systems read besides MakePlayer's
RoundPlayer(p) == p @@ [children |-> IF p.berry THEN 1 ELSE 0,
                         gate_timer |-> NoTimer, impulse_y |-> 0]

TouchSeqs(alphabet) == UNION {[1..k -> alphabet] : k \in 0..MaxTouches}

\* (entity1, entity2), (entity2, entity1)
both_orders(ev) == << <<ev.entity1, ev.entity2>>, <<ev.entity2, ev.entity1>> >>

\* the next run of the schedule starts: every system is pending again
update(systems, alphabet) ==
    /\ pending = {}
    /\ commands = <<>>
    /\ tick < MaxTicks
    /\ tick' = tick + 1
    /\ pending' = systems
    /\ collision_events' \in TouchSeqs(alphabet)
    /\ attack_cursor' = 0

\* the physics step resets every ExternalImpulse it has applied
stepped(ps) ==
    [e \in DOMAIN ps |->
        IF ps[e].exists
        THEN [ps[e] EXCEPT !.impulse_x = 0, !.impulse_y = 0]
        ELSE ps[e]]

\* a synchronisation point of the schedule: the queued commands are applied
apply_deferred ==
    /\ commands # <<>>
    /\ ~AttackInProgress
    /\ LET w == apply_commands(World, commands)
       IN  /\ players' = w.players
           /\ free_berries' = w.free_berries
           /\ ship_team' = w.ship_team
           /\ berry_cells' = w.berry_cells
           /\ berries' = w.berries
           /\ gates' = w.gates
           /\ spawners' = w.spawners
           /\ next_game_timers' = w.next_game_timers
           /\ win_texts' = w.win_texts
    /\ commands' = <<>>
    /\ pending' = IF apply_commands(World, commands).panicked
                  THEN Panicked
                  ELSE pending
    /\ UNCHANGED <<queen_deaths, game_settings, collision_events, attack_cursor,
                   ev_knockback, ev_spawn_players, ev_win,
                   berries_collected, ship_x, tick>>
    /\ UNCHANGED match_vars

----------------------------------------------------------------------------
(* The ship (ship.rs).  x-translations are whole pixels: for them           *)
(* x.abs() > 1920/2 - 1920/18 (853.33) is |x| > 853.  One unit of time      *)
(* moves the ship by SHIP_SPEED pixels.                                     *)

SHIP_SPEED == 20
SHIP_WIN_SPOT == 853
SHIP_HEIGHT == 33
\* WINDOW_BOTTOM_Y + WINDOW_HEIGHT / 36.0
SHIP_Y == -480

\* match team { Team::Red => -1.0, Team::Blue => 1.0 }
ship_direction(team) == IF team = "Yellow" THEN -1 ELSE 1

\* workers.get(entity) of a query over (With<Player>, Without<Wings>)
IsWorker(ps, e) == IsPlayer(ps, e) /\ ~ps[e].wings

\* get_on_ship, one (ship_entity, player_entity) pair of a collision-start
board(acc, ship_entity, player_entity) ==
    IF IsWorker(players, player_entity) /\ ship_entity = ShipEntity
    THEN IF ship_team = NoTeam
         THEN [acc EXCEPT !.cmds = @ \o
                  << [op |-> "insert_riding", entity |-> player_entity],
                     [op |-> "insert_team", entity |-> ship_entity,
                      team |-> players[player_entity].team] >>]
         ELSE [acc EXCEPT !.knockbacks = Append(@,
                  [entity |-> player_entity,
                   direction |-> IF players[player_entity].x < ship_x
                                 THEN "Left" ELSE "Right"])]
    ELSE acc

RECURSIVE boarded(_, _)
boarded(acc, evs) ==
    IF evs = <<>>
    THEN acc
    ELSE LET ev == Head(evs)
             pairs == both_orders(ev)
         IN  boarded(
                 IF ev.kind = "Started"
                 THEN board(board(acc, pairs[1][1], pairs[1][2]),
                            pairs[2][1], pairs[2][2])
                 ELSE acc,
                 Tail(evs))

get_on_ship ==
    /\ "get_on_ship" \in pending
    /\ LET r == boarded([cmds |-> <<>>, knockbacks |-> <<>>], collision_events)
       IN  /\ commands' = commands \o r.cmds
           /\ ev_knockback' = ev_knockback \o r.knockbacks
    /\ pending' = pending \ {"get_on_ship"}
    /\ UNCHANGED <<players, ship_team, free_berries, queen_deaths, game_settings,
                   collision_events, attack_cursor, ev_spawn_players, ev_win>>
    /\ UNCHANGED round_vars
    /\ UNCHANGED match_vars
    /\ UNCHANGED spawn_vars

\* the riders, in the order the query iterates them
Riders == {e \in DOMAIN players : players[e].exists /\ players[e].riding}

RECURSIVE ship_moved(_, _, _)
ship_moved(w, riders, dt) ==
    IF riders = {}
    THEN w
    ELSE LET e == CHOOSE r \in riders : TRUE
             x == w.ship_x + ship_direction(ship_team) * SHIP_SPEED * dt
         IN  ship_moved(
                 [ship_x |-> x,
                  players |-> [w.players EXCEPT
                      ![e].x = x,
                      ![e].y = SHIP_Y + WORKER_RENDER_HEIGHT \div 2 + SHIP_HEIGHT \div 2]],
                 riders \ {e}, dt)

\* ships.get_mut(riding_on_ship.ship).unwrap() fails on a ship without a Team
move_ship ==
    /\ "move_ship" \in pending
    /\ IF Riders # {} /\ ship_team = NoTeam
       THEN /\ pending' = Panicked
            /\ UNCHANGED <<players, ship_x>>
       ELSE /\ pending' = pending \ {"move_ship"}
            /\ \E dt \in 1..MaxDelta :
                  LET w == ship_moved([ship_x |-> ship_x, players |-> players],
                                      Riders, dt)
                  IN  players' = w.players /\ ship_x' = w.ship_x
    /\ UNCHANGED <<ship_team, free_berries, queen_deaths, game_settings,
                   collision_events, attack_cursor, commands, ev_knockback,
                   ev_spawn_players, ev_win, berries_collected, berry_cells,
                   berries, gates, tick>>
    /\ UNCHANGED match_vars
    /\ UNCHANGED spawn_vars

RECURSIVE jumped_off(_, _)
jumped_off(w, jumpers) ==
    IF jumpers = {}
    THEN w
    ELSE LET e == CHOOSE r \in jumpers : TRUE
         IN  jumped_off(
                 [cmds |-> w.cmds \o
                      << [op |-> "remove_riding", entity |-> e],
                         [op |-> "remove_team", entity |-> ShipEntity] >>,
                  players |-> [w.players EXCEPT
                      ![e].impulse_y = @ + PLAYER_JUMP_IMPULSE]],
                 jumpers \ {e})

\* the riders whose action_state.just_pressed(&Action::Jump) holds are an input
jump_off_ship ==
    /\ "jump_off_ship" \in pending
    /\ \E jumpers \in SUBSET Riders :
          LET w == jumped_off([cmds |-> <<>>, players |-> players], jumpers)
          IN  /\ commands' = commands \o w.cmds
              /\ players' = w.players
    /\ pending' = pending \ {"jump_off_ship"}
    /\ UNCHANGED <<ship_team, free_berries, queen_deaths, game_settings,
                   collision_events, attack_cursor, ev_knockback,
                   ev_spawn_players, ev_win>>
    /\ UNCHANGED round_vars
    /\ UNCHANGED match_vars
    /\ UNCHANGED spawn_vars

\* the query (&Transform, &Team) matches the ship only while it has a Team
ship_wins(x, team) ==
    IF team # NoTeam /\ Abs(x) > SHIP_WIN_SPOT
    THEN << [team |-> team, win_condition |-> "Ship"] >>
    ELSE <<>>

check_for_ship_win ==
    /\ "check_for_ship_win" \in pending
    /\ ev_win' = ev_win \o ship_wins(ship_x, ship_team)
    /\ pending' = pending \ {"check_for_ship_win"}
    /\ UNCHANGED <<players, ship_team, free_berries, queen_deaths, game_settings,
                   collision_events, attack_cursor, commands, ev_knockback,
                   ev_spawn_players>>
    /\ UNCHANGED round_vars
    /\ UNCHANGED match_vars
    /\ UNCHANGED spawn_vars

\* the systems of ShipPlugin's Update tuple that change the state
ShipSystems ==
    {"get_on_ship", "move_ship", "jump_off_ship", "check_for_ship_win"}

ShipTouches == {Started(ShipEntity, "p1"), Started("p2", ShipEntity)}

\* where a run can find the ship: at its spawn point, one move short of a
\* win spot, or past a win spot (the ship is spawned once, at Startup, and
\* stays where the last ride left it)
ShipXs ==
    {side * (SHIP_WIN_SPOT + 1 - back * SHIP_SPEED) :
        side \in {-1, 1}, back \in 0..1} \cup {0}

\* the reach of the ship's collider and a worker's
SHIP_REACH == SHIP_HEIGHT \div 4 + (WORKER_RENDER_WIDTH * 3) \div 20

\* a Yellow and a Purple worker beside the ship; the ship is unclaimed, or
\* claimed by its rider, and past a win spot only on the side its team
\* travels to
InitShip ==
    /\ ship_x \in ShipXs
    /\ \E rider \in {NoTeam} \cup Team :
          /\ (Abs(ship_x) > SHIP_WIN_SPOT /\ rider # NoTeam)
                => ship_direction(rider) * ship_x > 0
          /\ ship_team = rider
          /\ LET w1 == CHOOSE r \in WorkerRoles : ~r.berry
                    w2 == CHOOSE r \in WorkerRoles : ~r.berry
                  p1 == RoundPlayer(MakePlayer("p1", w1, "Yellow", "Right", FALSE,
                                               ship_x - SHIP_REACH, SHIP_Y))
                  p2 == RoundPlayer(MakePlayer("p2", w2, "Purple", "Left", FALSE,
                                               ship_x + SHIP_REACH, SHIP_Y))
              IN  players =
                      [p1 |-> IF rider = "Yellow"
                              THEN [p1 EXCEPT !.riding = TRUE, !.x = ship_x]
                              ELSE p1,
                       p2 |-> IF rider = "Purple"
                              THEN [p2 EXCEPT !.riding = TRUE, !.x = ship_x]
                              ELSE p2]
    /\ free_berries = <<>>
    /\ queen_deaths = [yellow_deaths |-> 0, purple_deaths |-> 0]
    /\ game_settings = [queen_lives |-> DEFAULT_QUEEN_LIVES]
    /\ collision_events \in TouchSeqs(ShipTouches)
    /\ attack_cursor = 0
    /\ commands = <<>>
    /\ ev_knockback = <<>>
    /\ ev_spawn_players = <<>>
    /\ ev_win = <<>>
    /\ pending = ShipSystems
    /\ berries_collected = [yellow_berries |-> 0, purple_berries |-> 0]
    /\ berry_cells = <<>>
    /\ berries = <<>>
    /\ gates = <<>>
    /\ tick = 1
    /\ InitMatch

\* the KnockBackEvents of the run have been read by apply_knockbacks and
\* the physics step has used up the impulses
ship_update ==
    /\ update(ShipSystems, ShipTouches)
    /\ players' = stepped(players)
    /\ ev_knockback' = <<>>
    /\ UNCHANGED <<ship_team, free_berries, queen_deaths, game_settings,
                   commands, ev_spawn_players, ev_win,
                   berries_collected, berry_cells, berries, gates, ship_x>>
    /\ UNCHANGED match_vars
    /\ UNCHANGED spawn_vars

NextShip ==
    \/ get_on_ship
    \/ move_ship
    \/ jump_off_ship
    \/ check_for_ship_win
    \/ apply_deferred
    \/ ship_update

SpecShip == InitShip /\ [][NextShip]_vars

----------------------------------------------------------------------------
CheckShipWinStep ==
    "check_for_ship_win" \in pending /\ "check_for_ship_win" \notin pending'

ShipWinSent(t) ==
    \E i \in 1..Len(NewWins) :
        NewWins[i] = [team |-> t, win_condition |-> "Ship"]

\* C12 as stated: check_for_ship_win sends a Ship WinEvent for team T only
\* when the ship is claimed by T and has passed SHIP_WIN_SPOT on the side T's
\* ship travels to; an unclaimed ship sends none, and a ship claimed by T
\* that is past the spot of the other side sends none for T.
C12_ShipWinOnOwnSide ==
    [][ CheckShipWinStep =>
          \A t \in Team :
              ShipWinSent(t) =>
                  /\ ship_team = t
                  /\ ship_direction(t) * ship_x > SHIP_WIN_SPOT ]_vars

\* what the code does, for the record: the distance from the centre decides,
\* on either side
C12_ShipWinOnEitherSide ==
    [][ CheckShipWinStep =>
          \A t \in Team :
              ShipWinSent(t) <=> (ship_team = t /\ Abs(ship_x) > SHIP_WIN_SPOT) ]_vars

\* an unclaimed ship past a win spot sends no WinEvent
C12_WitnessUnclaimed ==
    /\ "check_for_ship_win" \notin pending
    /\ ship_team = NoTeam /\ Abs(ship_x) > SHIP_WIN_SPOT
    /\ ev_win = <<>> /\ tick > 1

----------------------------------------------------------------------------
(* The berry economy (berries.rs) *)

\* berries.get(entity) of a query over (With<Berry>, Without<Player>,
\* Without<BerryCell>): a held berry has no collider and meets nobody
IsFreeBerry(e) == e \in DOMAIN berries /\ berries[e].exists

\* players_without_berries.get(entity): (With<Player>, Without<Berry>, Without<Wings>)
IsPlayerWithoutBerry(e) == IsWorker(players, e) /\ ~players[e].berry

\* players_with_berries.get(entity): (With<Player>, With<Berry>, Without<Wings>)
IsPlayerWithBerry(e) == IsWorker(players, e) /\ players[e].berry

\* empty_berry_cells.get_mut(entity): (With<BerryCell>, Without<Berry>)
IsEmptyCell(e) == e \in DOMAIN berry_cells /\ ~berry_cells[e].berry

\* mutant: grabbed_berries_this_frame is not consulted
grab_every_touch(acc, berry_entity, player_entity) ==
    IF IsFreeBerry(berry_entity) /\ IsPlayerWithoutBerry(player_entity)
    THEN [cmds |-> acc.cmds \o
              << [op |-> "despawn", entity |-> berry_entity],
                 [op |-> "insert_berry", entity |-> player_entity],
                 [op |-> "add_child", entity |-> player_entity] >>,
          grabbed |-> acc.grabbed \cup {player_entity}]
    ELSE acc

\* grab_berries, one (berry_entity, player_entity) pair of a collision-start
grab(acc, berry_entity, player_entity) ==
    IF /\ IsFreeBerry(berry_entity)
       /\ IsPlayerWithoutBerry(player_entity)
       /\ player_entity \notin acc.grabbed
    THEN [cmds |-> acc.cmds \o
              << [op |-> "despawn", entity |-> berry_entity],
                 [op |-> "insert_berry", entity |-> player_entity],
                 [op |-> "add_child", entity |-> player_entity] >>,
          grabbed |-> acc.grabbed \cup {player_entity}]
    ELSE acc

RECURSIVE grabbed_berries(_, _)
grabbed_berries(acc, evs) ==
    IF evs = <<>>
    THEN acc
    ELSE LET ev == Head(evs)
             pairs == both_orders(ev)
         IN  grabbed_berries(
                 IF ev.kind = "Started"
                 THEN grab(grab(acc, pairs[1][1], pairs[1][2]),
                           pairs[2][1], pairs[2][2])
                 ELSE acc,
                 Tail(evs))

grab_berries ==
    /\ "grab_berries" \in pending
    /\ commands' = commands \o
          grabbed_berries([cmds |-> <<>>, grabbed |-> {}], collision_events).cmds
    /\ pending' = pending \ {"grab_berries"}
    /\ UNCHANGED <<players, ship_team, free_berries, queen_deaths, game_settings,
                   collision_events, attack_cursor, ev_knockback,
                   ev_spawn_players, ev_win>>
    /\ UNCHANGED round_vars
    /\ UNCHANGED match_vars
    /\ UNCHANGED spawn_vars

\* match player_team { Team::Yellow => yellow_berries += 1, ... }
count_berry(bc, team) ==
    IF team = "Yellow"
    THEN [bc EXCEPT !.yellow_berries = @ + 1]
    ELSE [bc EXCEPT !.purple_berries = @ + 1]

\* mutant: placed_berries_this_frame is not consulted
put_every_touch(acc, berry_cell_entity, player_entity) ==
    IF /\ IsEmptyCell(berry_cell_entity)
       /\ IsPlayerWithBerry(player_entity)
       /\ berry_cells[berry_cell_entity].team = players[player_entity].team
    THEN [cmds |-> acc.cmds \o
              << [op |-> "remove_berry", entity |-> player_entity],
                 [op |-> "despawn_descendants", entity |-> player_entity],
                 [op |-> "insert_berry", entity |-> berry_cell_entity] >>,
          collected |-> count_berry(acc.collected, players[player_entity].team),
          white |-> acc.white \cup {berry_cell_entity},
          placed |-> acc.placed \cup {player_entity}]
    ELSE acc

\* mutant: the team of the cell is not compared with the player's
put_in_any_cell(acc, berry_cell_entity, player_entity) ==
    IF /\ IsEmptyCell(berry_cell_entity)
       /\ IsPlayerWithBerry(player_entity)
       /\ player_entity \notin acc.placed
    THEN [cmds |-> acc.cmds \o
              << [op |-> "remove_berry", entity |-> player_entity],
                 [op |-> "despawn_descendants", entity |-> player_entity],
                 [op |-> "insert_berry", entity |-> berry_cell_entity] >>,
          collected |-> count_berry(acc.collected, players[player_entity].team),
          white |-> acc.white \cup {berry_cell_entity},
          placed |-> acc.placed \cup {player_entity}]
    ELSE acc

\* put_berries_in_cells, one (berry_cell_entity, player_entity) pair of a
\* collision-start; the sprite of the cell turns white at once
put(acc, berry_cell_entity, player_entity) ==
    IF /\ IsEmptyCell(berry_cell_entity)
       /\ IsPlayerWithBerry(player_entity)
       /\ player_entity \notin acc.placed
       /\ berry_cells[berry_cell_entity].team = players[player_entity].team
    THEN [cmds |-> acc.cmds \o
              << [op |-> "remove_berry", entity |-> player_entity],
                 [op |-> "despawn_descendants", entity |-> player_entity],
                 [op |-> "insert_berry", entity |-> berry_cell_entity] >>,
          collected |-> count_berry(acc.collected, players[player_entity].team),
          white |-> acc.white \cup {berry_cell_entity},
          placed |-> acc.placed \cup {player_entity}]
    ELSE acc

RECURSIVE put_berries(_, _)
put_berries(acc, evs) ==
    IF evs = <<>>
    THEN acc
    ELSE LET ev == Head(evs)
             pairs == both_orders(ev)
         IN  put_berries(
                 IF ev.kind = "Started"
                 THEN put(put(acc, pairs[1][1], pairs[1][2]),
                          pairs[2][1], pairs[2][2])
                 ELSE acc,
                 Tail(evs))

put_berries_in_cells ==
    /\ "put_berries_in_cells" \in pending
    /\ LET r == put_berries([cmds |-> <<>>, collected |-> berries_collected,
                             white |-> {}, placed |-> {}], collision_events)
       IN  /\ commands' = commands \o r.cmds
           /\ berries_collected' = r.collected
           /\ berry_cells' =
                  [c \in DOMAIN berry_cells |->
                      IF c \in r.white
                      THEN [berry_cells[c] EXCEPT !.white = TRUE]
                      ELSE berry_cells[c]]
    /\ pending' = pending \ {"put_berries_in_cells"}
    /\ UNCHANGED <<players, ship_team, free_berries, queen_deaths, game_settings,
                   collision_events, attack_cursor, ev_knockback,
                   ev_spawn_players, ev_win, berries, gates, ship_x, tick>>
    /\ UNCHANGED match_vars
    /\ UNCHANGED spawn_vars

\* mutant: the win is sent one berry early
economic_wins_early(bc, berries_to_win) ==
    (IF bc.yellow_berries + 1 >= berries_to_win
     THEN << [team |-> "Yellow", win_condition |-> "Economic"] >>
     ELSE <<>>)
    \o (IF bc.purple_berries + 1 >= berries_to_win
        THEN << [team |-> "Purple", win_condition |-> "Economic"] >>
        ELSE <<>>)

economic_wins(bc, berries_to_win) ==
    (IF bc.yellow_berries >= berries_to_win
     THEN << [team |-> "Yellow", win_condition |-> "Economic"] >>
     ELSE <<>>)
    \o (IF bc.purple_berries >= berries_to_win
        THEN << [team |-> "Purple", win_condition |-> "Economic"] >>
        ELSE <<>>)

check_for_berry_win ==
    /\ "check_for_berry_win" \in pending
    /\ ev_win' = ev_win \o economic_wins(berries_collected, game_settings.berries_to_win)
    /\ pending' = pending \ {"check_for_berry_win"}
    /\ UNCHANGED <<players, ship_team, free_berries, queen_deaths, game_settings,
                   collision_events, attack_cursor, commands, ev_knockback,
                   ev_spawn_players>>
    /\ UNCHANGED round_vars
    /\ UNCHANGED match_vars
    /\ UNCHANGED spawn_vars

----------------------------------------------------------------------------
(* Deposits and the economic win: put_berries_in_cells and                 *)
(* check_for_berry_win over several runs of the schedule, from the layout  *)
(* handle_respawn_berries_event leaves behind.                             *)

\* largest berries_to_win setting (the slider allows 1..=18)
MaxBerriesToWin == 2
\* WinEvents that stay readable over the updates of Events<WinEvent>
MaxWins == 2

\* the berry cells the model follows: the first two of Yellow's layout and
\* the first of Purple's
CellLayout ==
    [c1 |-> [team |-> "Yellow", slot |-> 1],
     c2 |-> [team |-> "Yellow", slot |-> 2],
     c3 |-> [team |-> "Purple", slot |-> 1]]

\* cells_placed >= game_settings.berries_to_win ends the layout of a team
laid_out_cells(berries_to_win) ==
    [c \in {d \in DOMAIN CellLayout : CellLayout[d].slot <= berries_to_win} |->
        [team |-> CellLayout[c].team, berry |-> FALSE, white |-> FALSE]]

CellSystems == {"put_berries_in_cells", "check_for_berry_win"}

CellTouches ==
    {Started("c1", "p1"), Started("p1", "c1"), Started("c2", "p1"),
     Started("c1", "p2"), Started("c3", "p1"), Started("c3", "p2")}

\* a Yellow worker and a worker of either team, each with or without a
\* berry, right after the berries and cells were laid out
InitCells ==
    /\ \E n \in 1..MaxBerriesToWin :
          /\ game_settings = [queen_lives |-> DEFAULT_QUEEN_LIVES, berries_to_win |-> n]
          /\ berry_cells = laid_out_cells(n)
    /\ \E w1 \in WorkerRoles, w2 \in WorkerRoles, t2 \in Team :
          players =
              [p1 |-> RoundPlayer(MakePlayer("p1", w1, "Yellow", "Right", FALSE, 0, 0)),
               p2 |-> RoundPlayer(MakePlayer("p2", w2, t2, "Left", FALSE,
                                             WORKER_RENDER_WIDTH, 0))]
    /\ berries_collected = [yellow_berries |-> 0, purple_berries |-> 0]
    /\ collision_events \in TouchSeqs(CellTouches)
    /\ pending = CellSystems
    /\ tick = 1
    /\ ship_team = NoTeam
    /\ ship_x = 0
    /\ free_berries = <<>>
    /\ queen_deaths = [yellow_deaths |-> 0, purple_deaths |-> 0]
    /\ attack_cursor = 0
    /\ commands = <<>>
    /\ ev_knockback = <<>>
    /\ ev_spawn_players = <<>>
    /\ ev_win = <<>>
    /\ berries = <<>>
    /\ gates = <<>>
    /\ InitMatch

cells_update ==
    /\ update(CellSystems, CellTouches)
    /\ UNCHANGED <<players, ship_team, free_berries, queen_deaths, game_settings,
                   commands, ev_knockback, ev_spawn_players, ev_win,
                   berries_collected, berry_cells, berries, gates, ship_x>>
    /\ UNCHANGED match_vars
    /\ UNCHANGED spawn_vars

NextCells ==
    \/ put_berries_in_cells
    \/ check_for_berry_win
    \/ apply_deferred
    \/ cells_update

SpecCells == InitCells /\ [][NextCells]_vars

----------------------------------------------------------------------------
(* Vocabulary of the economy properties.  A deposit queues three commands: *)
(* remove_berry and despawn_descendants for the player, insert_berry for   *)
(* the cell.                                                               *)

PutStep ==
    "put_berries_in_cells" \in pending /\ "put_berries_in_cells" \notin pending'

CheckBerryWinStep ==
    "check_for_berry_win" \in pending /\ "check_for_berry_win" \notin pending'

ApplyStep == commands # <<>> /\ commands' = <<>>

\* a collision-start of this run names a and b, in either order
Touches(a, b) ==
    \E i \in 1..Len(collision_events) :
        /\ collision_events[i].kind = "Started"
        /\ \/ collision_events[i].entity1 = a /\ collision_events[i].entity2 = b
           \/ collision_events[i].entity1 = b /\ collision_events[i].entity2 = a

Collected(bc, t) == IF t = "Yellow" THEN bc.yellow_berries ELSE bc.purple_berries

DepositsBy(cmds, e) ==
    {i \in 1..Len(cmds) : cmds[i] = [op |-> "remove_berry", entity |-> e]}

DepositsInto(cmds, c) ==
    {i \in 1..Len(cmds) : cmds[i] = [op |-> "insert_berry", entity |-> c]}

\* the empty cells of e's team that e touches in this run
OwnEmptyCellsTouched(e) ==
    {c \in DOMAIN berry_cells :
        /\ ~berry_cells[c].berry
        /\ berry_cells[c].team = players[e].team
        /\ Touches(c, e)}

\* the berry-holding workers that touch an empty cell of their team
Depositors ==
    {e \in DOMAIN players : IsPlayerWithBerry(e) /\ OwnEmptyCellsTouched(e) # {}}

EconomicWinIn(wins, t) ==
    \E i \in 1..Len(wins) : wins[i] = [team |-> t, win_condition |-> "Economic"]

----------------------------------------------------------------------------
\* C11 as stated: with berries_to_win = N, check_for_berry_win sends an
\* Economic WinEvent for a team when it first finds the team's counter at N
\* or more, and never again on a later tick; while the counter is at most
\* N - 1 it sends none.
C11_EconomicWinOnce ==
    [][ CheckBerryWinStep =>
          \A t \in Team :
              EconomicWinIn(NewWins, t)
                  <=> /\ Collected(berries_collected, t) >= game_settings.berries_to_win
                      /\ ~EconomicWinIn(ev_win, t) ]_vars

\* what the code does, for the record: the event is sent on every tick on
\* which the counter is at N or more
C11_EconomicWinEveryTick ==
    [][ CheckBerryWinStep =>
          \A t \in Team :
              EconomicWinIn(NewWins, t)
                  <=> Collected(berries_collected, t) >= game_settings.berries_to_win ]_vars

\* C13: when collision-starts of one tick pair a berry-holding worker with
\* empty cells of its team, in either order of the entities and however
\* many, put_berries_in_cells deposits the worker's berry exactly once, into
\* one of those cells; the team counter rises by exactly 1 for every such
\* worker; when the commands are applied the worker holds no berry and the
\* cell is occupied.
C13_DepositOncePerTick ==
    [][ /\ PutStep =>
              /\ \A e \in Depositors :
                    /\ Cardinality(DepositsBy(NewCommands, e)) = 1
                    /\ \A i \in DepositsBy(NewCommands, e) :
                          /\ NewCommands[i + 2].op = "insert_berry"
                          /\ NewCommands[i + 2].entity \in OwnEmptyCellsTouched(e)
              /\ \A t \in Team :
                    Collected(berries_collected', t) - Collected(berries_collected, t)
                        = Cardinality({e \in Depositors : players[e].team = t})
        /\ ApplyStep =>
              \A i \in 1..Len(commands) :
                  commands[i].op = "remove_berry" =>
                      /\ ~players'[commands[i].entity].berry
                      /\ players'[commands[i].entity].children = 0
                      /\ berry_cells'[commands[i + 2].entity].berry ]_vars

\* both orders of one collision-start were delivered: one deposit was made
C13_Witness ==
    /\ "put_berries_in_cells" \notin pending
    /\ tick = 1
    /\ collision_events = << Started("c1", "p1"), Started("p1", "c1") >>
    /\ berries_collected = [yellow_berries |-> 1, purple_berries |-> 0]
    /\ commands = <<>>
    /\ ~players["p1"].berry /\ players["p1"].children = 0
    /\ berry_cells["c1"].berry

\* the worker touched two empty cells of its team: one deposit, into the first
C13_WitnessTwoCells ==
    /\ game_settings.berries_to_win > 1
    /\ "put_berries_in_cells" \notin pending
    /\ tick = 1
    /\ collision_events = << Started("c1", "p1"), Started("c2", "p1") >>
    /\ berries_collected = [yellow_berries |-> 1, purple_berries |-> 0]
    /\ commands = <<>>
    /\ berry_cells["c1"].berry /\ ~berry_cells["c2"].berry

\* C14 as stated: a cell takes a berry only from a berry-holding worker of
\* its team; a cell is the target of at most one deposit, and of none once
\* it is occupied, also when two players touch the same empty cell in one
\* tick; collisions with cells of the other team change nothing.
C14_CellAcceptsOnce ==
    [][ PutStep =>
          /\ \A c \in DOMAIN berry_cells :
                Cardinality(DepositsInto(NewCommands, c))
                    <= IF berry_cells[c].berry THEN 0 ELSE 1
          /\ \A e \in DOMAIN players :
                \A i \in DepositsBy(NewCommands, e) :
                    /\ IsPlayerWithBerry(e)
                    /\ berry_cells[NewCommands[i + 2].entity].team = players[e].team
          /\ Depositors = {} =>
                /\ commands' = commands
                /\ berries_collected' = berries_collected
                /\ berry_cells' = berry_cells ]_vars

\* what the code does, for the record: an empty cell takes one berry from
\* every berry-holding worker of its team whose first deposit of the tick
\* goes to it, and an occupied cell takes none
C14_CellAcceptsOncePerPlayer ==
    [][ PutStep =>
          /\ \A c \in DOMAIN berry_cells :
                Cardinality(DepositsInto(NewCommands, c))
                    <= IF berry_cells[c].berry
                       THEN 0
                       ELSE Cardinality({e \in Depositors : Touches(c, e)})
          /\ \A e \in DOMAIN players :
                \A i \in DepositsBy(NewCommands, e) :
                    /\ IsPlayerWithBerry(e)
                    /\ berry_cells[NewCommands[i + 2].entity].team = players[e].team
          /\ Depositors = {} =>
                /\ commands' = commands
                /\ berries_collected' = berries_collected
                /\ berry_cells' = berry_cells ]_vars

----------------------------------------------------------------------------
(* Possession of a berry: grab_berries, put_berries_in_cells and           *)
(* players_attack over several runs of the schedule.  A Yellow worker      *)
(* among two free berries and an empty cell of its team, and two Purple    *)
(* fliers.                                                                 *)

GrabSystems == {"grab_berries", "put_berries_in_cells", "players_attack"}

GrabTouches ==
    {Started("b1", "p1"), Started("p1", "b1"), Started("b2", "p1"),
     Started("b1", "p2"), Started("c1", "p1"),
     Started("p2", "p1"), Started("p1", "p3")}

InitGrab ==
    /\ \E w1 \in WorkerRoles, q2 \in QueenRoles, inv \in BOOLEAN :
          /\ ~q2.diving
          /\ players =
              [p1 |-> RoundPlayer(MakePlayer("p1", w1, "Yellow", "Right", inv, 0, 0)),
               p2 |-> RoundPlayer(MakePlayer("p2", q2, "Purple", "Left", FALSE,
                                             WORKER_RENDER_WIDTH \div 2, 0)),
               p3 |-> RoundPlayer(MakePlayer("p3", CHOOSE f \in FighterRoles : TRUE,
                                             "Purple", "Right", FALSE,
                                             0, 2 * WORKER_RENDER_HEIGHT))]
    /\ berries = [b1 |-> [exists |-> TRUE], b2 |-> [exists |-> TRUE]]
    /\ game_settings = [queen_lives |-> DEFAULT_QUEEN_LIVES, berries_to_win |-> 1]
    /\ berry_cells = laid_out_cells(1)
    /\ berries_collected = [yellow_berries |-> 0, purple_berries |-> 0]
    /\ collision_events \in TouchSeqs(GrabTouches)
    /\ pending = GrabSystems
    /\ tick = 1
    /\ ship_team = NoTeam
    /\ ship_x = 0
    /\ free_berries = <<>>
    /\ queen_deaths = [yellow_deaths |-> 0, purple_deaths |-> 0]
    /\ attack_cursor = 0
    /\ commands = <<>>
    /\ ev_knockback = <<>>
    /\ ev_spawn_players = <<>>
    /\ ev_win = <<>>
    /\ gates = <<>>
    /\ InitMatch

\* the KnockBackEvents and SpawnPlayerEvents of the run have been read by
\* apply_knockbacks and add_delayed_player_spawners
grab_update ==
    /\ update(GrabSystems, GrabTouches)
    /\ ev_knockback' = <<>>
    /\ ev_spawn_players' = <<>>
    /\ UNCHANGED <<players, ship_team, free_berries, queen_deaths, game_settings,
                   commands, ev_win, berries_collected, berry_cells, berries,
                   gates, ship_x>>
    /\ UNCHANGED match_vars
    /\ UNCHANGED spawn_vars

NextGrab ==
    \/ grab_berries
    \/ put_berries_in_cells
    \/ players_attack
    \/ players_attack_return
    \/ apply_deferred
    \/ grab_update

SpecGrab == InitGrab /\ [][NextGrab]_vars

----------------------------------------------------------------------------
GrabStep == "grab_berries" \in pending /\ "grab_berries" \notin pending'

AttackReturnStep == "players_attack" \in pending /\ "players_attack" \notin pending'

\* a grab queues three commands: despawn for the berry, insert_berry and
\* add_child for the player
GrabsBy(cmds, e) ==
    {i \in 1..Len(cmds) : cmds[i] = [op |-> "insert_berry", entity |-> e]}

\* the free berries e touches in this run
FreeBerriesTouched(e) ==
    {b \in DOMAIN berries : berries[b].exists /\ Touches(b, e)}

\* C15: grab_berries gives a berry only to a player without Berry and
\* without Wings: a berry-less worker that touches one or several free
\* berries in a tick grabs exactly one of them (one Berry marker, one
\* held-berry child, one berry despawned), every other player grabs none,
\* and in every state a live player has at most one held-berry child, and
\* has one exactly when it has the Berry marker.
C15_GrabOnePerPlayer ==
    [][ /\ GrabStep =>
              \A e \in DOMAIN players :
                  /\ Cardinality(GrabsBy(NewCommands, e)) =
                        IF IsPlayerWithoutBerry(e) /\ FreeBerriesTouched(e) # {}
                        THEN 1 ELSE 0
                  /\ \A i \in GrabsBy(NewCommands, e) :
                        /\ NewCommands[i - 1].op = "despawn"
                        /\ NewCommands[i - 1].entity \in FreeBerriesTouched(e)
                        /\ NewCommands[i + 1] = [op |-> "add_child", entity |-> e]
                  /\ Cardinality({i \in 1..Len(NewCommands) :
                                    NewCommands[i] = [op |-> "add_child", entity |-> e]})
                        = Cardinality(GrabsBy(NewCommands, e))
        /\ \A e \in DOMAIN players :
              players'[e].exists =>
                  /\ players'[e].children <= 1
                  /\ players'[e].berry <=> players'[e].children = 1
                  /\ players'[e].wings => ~players'[e].berry ]_vars

\* the worker touched two free berries in one tick and holds exactly one
C15_Witness ==
    /\ tick = 1 /\ pending = {} /\ commands = <<>>
    /\ collision_events = << Started("b1", "p1"), Started("b2", "p1") >>
    /\ players["p1"].exists /\ players["p1"].berry /\ players["p1"].children = 1
    /\ ~berries["b1"].exists /\ berries["b2"].exists

\* a flier touched a free berry: nothing was grabbed
C15_WitnessFlier ==
    /\ tick = 1 /\ pending = {} /\ commands = <<>>
    /\ collision_events = << Started("b1", "p2") >>
    /\ berries["b1"].exists /\ ~players["p2"].berry

\* the live players whose despawn is queued
Killed ==
    {e \in DOMAIN players :
        /\ players[e].exists
        /\ \E i \in 1..Len(commands) :
              commands[i] = [op |-> "despawn_recursive", entity |-> e]}

BerriesDroppedAt(cmds, x, y) ==
    {i \in 1..Len(cmds) : cmds[i] = [op |-> "spawn_berry", x |-> x, y |-> y]}

\* C16 as stated: a player killed while holding a berry causes exactly one
\* free berry to be spawned, at the player's translation, and a player
\* killed without a berry none; once a deposit is applied the player holds
\* no berry, so its later death spawns none.
C16_OneBerryPerDeath ==
    [][ /\ AttackReturnStep =>
              /\ \A e \in Killed :
                    Cardinality(BerriesDroppedAt(commands, players[e].x, players[e].y))
                        = IF players[e].berry THEN 1 ELSE 0
              /\ Len(free_berries') - Len(free_berries)
                    = Cardinality({e \in Killed : players[e].berry})
        /\ ApplyStep =>
              \A i \in 1..Len(commands) :
                  (commands[i].op = "remove_berry" /\ players'[commands[i].entity].exists)
                      => ~players'[commands[i].entity].berry ]_vars

\* what the code does, for the record: one berry is spawned for every kill
\* event of a berry-holding player, several when several events of one tick
\* kill the same player
C16_OneBerryPerKillEvent ==
    [][ /\ AttackReturnStep =>
              \A e \in Killed :
                  Cardinality(BerriesDroppedAt(commands, players[e].x, players[e].y))
                      = IF players[e].berry
                        THEN Cardinality({i \in 1..Len(commands) :
                                commands[i] = [op |-> "despawn_recursive", entity |-> e]})
                        ELSE 0
        /\ ApplyStep =>
              \A i \in 1..Len(commands) :
                  (commands[i].op = "remove_berry" /\ players'[commands[i].entity].exists)
                      => ~players'[commands[i].entity].berry ]_vars

----------------------------------------------------------------------------
(* The gates (gates.rs).  A GateTimer holds the elapsed time of a          *)
(* Timer::from_seconds(GATE_TIME, TimerMode::Once); the gate timers count  *)
(* in half seconds, so GATE_TIME (1.0 s) is 2 and Time::delta is           *)
(* 1..MaxDelta half seconds.  The sprite colour of a gate, the texture and *)
(* the Collider of a promoted player are not part of the state.            *)

GATE_TIME == 2

\* gates.get_mut(entity): (With<Gate>, Without<Player>)
IsGate(e) == e \in DOMAIN gates

\* mutant: the berry of the player is not consulted
gate_started_without_berry(acc, gate_entity, player_entity) ==
    IF IsGate(gate_entity) /\ IsPlayer(players, player_entity)
    THEN LET p == players[player_entity]
             claim == IF p.queen
                      THEN << [op |-> "insert_team", entity |-> gate_entity,
                               team |-> p.team] >>
                      ELSE <<>>
             start == IF /\ gates[gate_entity] \in {NoTeam, p.team}
                         /\ p.gate_timer = NoTimer
                      THEN << [op |-> "insert_gate_timer",
                               entity |-> player_entity] >>
                      ELSE <<>>
         IN  [acc EXCEPT !.cmds = @ \o claim \o start]
    ELSE acc

\* CollisionEvent::Started, one (gate_entity, player_entity) pair
gate_started(acc, gate_entity, player_entity) ==
    IF IsGate(gate_entity) /\ IsPlayer(players, player_entity)
    THEN LET p == players[player_entity]
             claim == IF p.queen
                      THEN << [op |-> "insert_team", entity |-> gate_entity,
                               team |-> p.team] >>
                      ELSE <<>>
             start == IF /\ gates[gate_entity] \in {NoTeam, p.team}
                         /\ p.gate_timer = NoTimer
                         /\ p.berry
                      THEN << [op |-> "insert_gate_timer",
                               entity |-> player_entity] >>
                      ELSE <<>>
         IN  [acc EXCEPT !.cmds = @ \o claim \o start]
    ELSE acc

\* CollisionEvent::Stopped, one (gate_entity, player_entity) pair
gate_stopped(acc, gate_entity, player_entity) ==
    IF /\ IsGate(gate_entity)
       /\ IsPlayer(players, player_entity)
       /\ players[player_entity].berry
       /\ players[player_entity].gate_timer # NoTimer
    THEN [cmds |-> acc.cmds \o
              << [op |-> "remove_gate_timer", entity |-> player_entity] >>,
          players |-> [acc.players EXCEPT ![player_entity].custom_size =
              [x |-> WORKER_RENDER_WIDTH, y |-> WORKER_RENDER_HEIGHT]]]
    ELSE acc

RECURSIVE gate_collisions(_, _)
gate_collisions(acc, evs) ==
    IF evs = <<>>
    THEN acc
    ELSE LET ev == Head(evs)
             pairs == both_orders(ev)
         IN  gate_collisions(
                 IF ev.kind = "Started"
                 THEN gate_started(gate_started(acc, pairs[1][1], pairs[1][2]),
                                   pairs[2][1], pairs[2][2])
                 ELSE gate_stopped(gate_stopped(acc, pairs[1][1], pairs[1][2]),
                                   pairs[2][1], pairs[2][2]),
                 Tail(evs))

check_worker_gate_collisions ==
    /\ "check_worker_gate_collisions" \in pending
    /\ LET acc == gate_collisions([cmds |-> <<>>, players |-> players],
                                  collision_events)
       IN  /\ commands' = commands \o acc.cmds
           /\ players' = acc.players
    /\ pending' = pending \ {"check_worker_gate_collisions"}
    /\ UNCHANGED <<ship_team, free_berries, queen_deaths, game_settings,
                   collision_events, attack_cursor, ev_knockback,
                   ev_spawn_players, ev_win>>
    /\ UNCHANGED round_vars
    /\ UNCHANGED match_vars
    /\ UNCHANGED spawn_vars

\* Timer::tick of a TimerMode::Once timer: the elapsed time stops at the duration
timer_tick(elapsed, dt) ==
    IF elapsed + dt > GATE_TIME THEN GATE_TIME ELSE elapsed + dt

\* lerp(worker..=queen, elapsed_secs / GATE_TIME)
grown(elapsed) ==
    [x |-> WORKER_RENDER_WIDTH
           + ((QUEEN_RENDER_WIDTH - WORKER_RENDER_WIDTH) * elapsed) \div GATE_TIME,
     y |-> WORKER_RENDER_HEIGHT
           + ((QUEEN_RENDER_HEIGHT - WORKER_RENDER_HEIGHT) * elapsed) \div GATE_TIME]

\* mutant: the finished GateTimer is left on the player
promote_keep_timer(entity) ==
    << [op |-> "remove_berry", entity |-> entity],
       [op |-> "insert_wings", entity |-> entity],
       [op |-> "despawn_descendants", entity |-> entity] >>

\* the commands of a finished timer
promote(entity) ==
    << [op |-> "remove_gate_timer", entity |-> entity],
       [op |-> "remove_berry", entity |-> entity],
       [op |-> "insert_wings", entity |-> entity],
       [op |-> "despawn_descendants", entity |-> entity] >>

\* the body of progress_gate_timers' loop for one player
progress(acc, entity, dt) ==
    LET p == acc.players[entity]
        elapsed == timer_tick(p.gate_timer, dt)
    IN  IF elapsed >= GATE_TIME
        THEN [cmds |-> acc.cmds \o promote(entity),
              players |-> [acc.players EXCEPT
                  ![entity].gate_timer = elapsed,
                  ![entity].custom_size =
                      [x |-> QUEEN_RENDER_WIDTH, y |-> QUEEN_RENDER_HEIGHT],
                  ![entity].y =
                      @ + (QUEEN_RENDER_HEIGHT - WORKER_RENDER_HEIGHT) \div 2]]
        ELSE [cmds |-> acc.cmds,
              players |-> [acc.players EXCEPT
                  ![entity].gate_timer = elapsed,
                  ![entity].custom_size = grown(elapsed)]]

\* players_with_gate_timers.iter_mut()
WithGateTimer(ps) ==
    {e \in DOMAIN ps : ps[e].exists /\ ps[e].gate_timer # NoTimer}

RECURSIVE progressed(_, _, _)
progressed(acc, entities, dt) ==
    IF entities = {}
    THEN acc
    ELSE LET e == CHOOSE x \in entities : TRUE
         IN  progressed(progress(acc, e, dt), entities \ {e}, dt)

progress_gate_timers ==
    /\ "progress_gate_timers" \in pending
    /\ \E dt \in 1..MaxDelta :
          LET acc == progressed([cmds |-> <<>>, players |-> players],
                                WithGateTimer(players), dt)
          IN  /\ commands' = commands \o acc.cmds
              /\ players' = acc.players
    /\ pending' = pending \ {"progress_gate_timers"}
    /\ UNCHANGED <<ship_team, free_berries, queen_deaths, game_settings,
                   collision_events, attack_cursor, ev_knockback,
                   ev_spawn_players, ev_win>>
    /\ UNCHANGED round_vars
    /\ UNCHANGED match_vars
    /\ UNCHANGED spawn_vars

----------------------------------------------------------------------------
(* The gate specification: a Yellow worker p1, with or without a berry and *)
(* with or without a running GateTimer, a queen p2 of either team and the  *)
(* gate g1, unclaimed or claimed by either team.                           *)

GateSystems == {"check_worker_gate_collisions", "progress_gate_timers"}

GateTouches ==
    {Started("g1", "p1"), Stopped("g1", "p1"), Started("p2", "g1")}

InitGates ==
    /\ \E w1 \in WorkerRoles, q2 \in QueenRoles, t2 \in Team,
          timer \in {NoTimer} \cup 0..(GATE_TIME - 1) :
          /\ ~q2.diving
          /\ timer # NoTimer => w1.berry
          /\ players =
              [p1 |-> [RoundPlayer(MakePlayer("p1", w1, "Yellow", "Right",
                                              FALSE, 0, 0))
                       EXCEPT !.gate_timer = timer,
                              !.custom_size = IF timer = NoTimer
                                              THEN w1.custom_size
                                              ELSE grown(timer)],
               p2 |-> RoundPlayer(MakePlayer("p2", q2, t2, "Left", FALSE,
                                             0, 2 * WORKER_RENDER_HEIGHT))]
    /\ gates \in [{"g1"} -> {NoTeam} \cup Team]
    /\ collision_events \in TouchSeqs(GateTouches)
    /\ pending = GateSystems
    /\ tick = 1
    /\ game_settings = [queen_lives |-> DEFAULT_QUEEN_LIVES, berries_to_win |-> 1]
    /\ berries_collected = [yellow_berries |-> 0, purple_berries |-> 0]
    /\ berry_cells = <<>>
    /\ berries = <<>>
    /\ ship_team = NoTeam
    /\ ship_x = 0
    /\ free_berries = <<>>
    /\ queen_deaths = [yellow_deaths |-> 0, purple_deaths |-> 0]
    /\ attack_cursor = 0
    /\ commands = <<>>
    /\ ev_knockback = <<>>
    /\ ev_spawn_players = <<>>
    /\ ev_win = <<>>
    /\ InitMatch

gates_update ==
    /\ update(GateSystems, GateTouches)
    /\ UNCHANGED <<players, ship_team, free_berries, queen_deaths, game_settings,
                   commands, ev_knockback, ev_spawn_players, ev_win,
                   berries_collected, berry_cells, berries, gates, ship_x>>
    /\ UNCHANGED match_vars
    /\ UNCHANGED spawn_vars

NextGates ==
    \/ check_worker_gate_collisions
    \/ progress_gate_timers
    \/ apply_deferred
    \/ gates_update

SpecGates == InitGates /\ [][NextGates]_vars

----------------------------------------------------------------------------
(* Vocabulary of the gate properties.                                      *)

CheckGateStep ==
    /\ "check_worker_gate_collisions" \in pending
    /\ "check_worker_gate_collisions" \notin pending'

ProgressStep ==
    "progress_gate_timers" \in pending /\ "progress_gate_timers" \notin pending'

\* the run of the schedule is over: every system has run, every command is applied
EndOfTick == pending = {} /\ commands = <<>>

\* the collision events of this run that name a and b
TouchEvents(a, b) ==
    {i \in 1..Len(collision_events) :
        {collision_events[i].entity1, collision_events[i].entity2} = {a, b}}

\* the contact of a and b has stopped in this run and not started again
ContactStopped(a, b) ==
    /\ TouchEvents(a, b) # {}
    /\ \A i \in TouchEvents(a, b) :
          (\A j \in TouchEvents(a, b) : j <= i)
              => collision_events[i].kind = "Stopped"

\* the contact of a and b has started in this run and not stopped again
ContactStarted(a, b) ==
    /\ TouchEvents(a, b) # {}
    /\ \A i \in TouchEvents(a, b) :
          (\A j \in TouchEvents(a, b) : j <= i)
              => collision_events[i].kind = "Started"

IsBerryWorker(ps, e) == IsWorker(ps, e) /\ ps[e].berry

TimerStarts(cmds, e) ==
    {i \in 1..Len(cmds) : cmds[i] = [op |-> "insert_gate_timer", entity |-> e]}

TimerStops(cmds, e) ==
    {i \in 1..Len(cmds) : cmds[i] = [op |-> "remove_gate_timer", entity |-> e]}

\* C17: a berry-holding worker whose contact with a gate has stopped before
\* GATE_TIME accumulated has lost its GateTimer when the tick is over and is
\* still a worker with its berry, also when the collision-start and the
\* collision-stop arrive in the same tick.
C17_StopCancelsTimer ==
    \A e \in DOMAIN players : \A g \in DOMAIN gates :
        (/\ EndOfTick
         /\ IsBerryWorker(players, e)
         /\ ContactStopped(g, e))
            => players[e].gate_timer = NoTimer

\* what the code does: the collision-stop cancels the timer that the player
\* had when check_worker_gate_collisions began
C17_StopCancelsRunningTimer ==
    [][\A e \in DOMAIN players : \A g \in DOMAIN gates :
          (/\ CheckGateStep
           /\ IsBerryWorker(players, e)
           /\ players[e].gate_timer # NoTimer
           /\ \E i \in TouchEvents(g, e) : collision_events[i].kind = "Stopped")
              => TimerStops(SubSeq(commands', Len(commands) + 1, Len(commands')), e) # {}
       ]_vars

\* C18: when progress_gate_timers brings a player's GateTimer to GATE_TIME
\* it queues the promotion once, and when the commands of that tick are
\* applied the player has Wings, no Berry marker, no held-berry child and
\* no GateTimer; no finished timer is left when a tick is over.
C18_PromotionCompletes ==
    [][\A e \in DOMAIN players :
          /\ (/\ ProgressStep
              /\ players[e].exists
              /\ players[e].gate_timer # NoTimer
              /\ players'[e].gate_timer >= GATE_TIME)
                 => Cardinality(
                        {i \in Len(commands) + 1 .. Len(commands') :
                            commands'[i] = [op |-> "insert_wings", entity |-> e]}) = 1
          /\ (/\ ApplyStep
              /\ players[e].exists
              /\ players[e].gate_timer >= GATE_TIME)
                 => /\ players'[e].wings
                    /\ ~players'[e].berry
                    /\ players'[e].children = 0
                    /\ players'[e].gate_timer = NoTimer
          /\ (pending' = {} /\ commands' = <<>> /\ players'[e].exists)
                 => players'[e].gate_timer < GATE_TIME
       ]_vars

\* a berry-holding worker's timer has finished and the promotion is applied
C18_Witness ==
    /\ EndOfTick
    /\ players["p1"].wings
    /\ ~players["p1"].queen
    /\ ~players["p1"].berry
    /\ players["p1"].children = 0
    /\ players["p1"].gate_timer = NoTimer
    /\ players["p1"].custom_size = [x |-> QUEEN_RENDER_WIDTH, y |-> QUEEN_RENDER_HEIGHT]
    /\ players["p1"].y = (QUEEN_RENDER_HEIGHT - WORKER_RENDER_HEIGHT) \div 2

\* C19: check_worker_gate_collisions queues a GateTimer for a player only if
\* the player carries a berry, has no GateTimer yet and a collision-start of
\* the tick names it with a gate that is unclaimed or claimed by its own
\* team; a player without a berry, one whose gates are all claimed by the
\* other team, or one that already has a timer gets none.  The components
\* are those the system reads, as they are when it begins.
C19_TimerOnlyWithBerryAtOwnGate ==
    [][CheckGateStep =>
          \A e \in DOMAIN players :
              LET new == SubSeq(commands', Len(commands) + 1, Len(commands'))
                  open == {g \in DOMAIN gates :
                              /\ gates[g] \in {NoTeam, players[e].team}
                              /\ \E i \in TouchEvents(g, e) :
                                    collision_events[i].kind = "Started"}
              IN  players[e].exists =>
                      (TimerStarts(new, e) # {}
                          <=> /\ players[e].berry
                              /\ players[e].gate_timer = NoTimer
                              /\ open # {})
       ]_vars

\* a berry-holding worker without a timer touches an open gate and has a
\* GateTimer at zero when the tick is over
C19_Witness ==
    /\ EndOfTick
    /\ tick = 1
    /\ IsBerryWorker(players, "p1")
    /\ players["p1"].gate_timer = 0
    /\ ContactStarted("g1", "p1")
    /\ gates["g1"] \in {NoTeam, "Yellow"}

\* a berry-holding worker touches a gate of the other team: no timer
C19_WitnessOtherTeam ==
    /\ EndOfTick
    /\ tick = 1
    /\ IsBerryWorker(players, "p1")
    /\ players["p1"].gate_timer = NoTimer
    /\ collision_events = << Started("g1", "p1") >>
    /\ gates["g1"] = "Purple"

\* a worker with a running timer is touched again: the timer is not restarted
C19_WitnessRunning ==
    /\ EndOfTick
    /\ IsBerryWorker(players, "p1")
    /\ players["p1"].gate_timer = 1
    /\ collision_events = << Started("g1", "p1") >>

\* C20: a gate that carries a team keeps that team, whatever players touch
\* it afterwards, a queen of the other team included (no round or match
\* reset happens in these behaviours), and no worker claims a gate.
C20_GateTeamStable ==
    [][\A g \in DOMAIN gates :
          /\ gates[g] # NoTeam => gates'[g] = gates[g]
          /\ gates'[g] # gates[g] =>
                \E e \in DOMAIN players :
                    /\ players[e].exists
                    /\ players[e].queen
                    /\ players[e].team = gates'[g]
                    /\ Touches(g, e)
       ]_vars

\* what the code does: every queen that touches a gate claims it
C20_GateTeamFollowsQueens ==
    [][\A g \in DOMAIN gates :
          gates'[g] # gates[g] =>
              \E e \in DOMAIN players :
                  /\ players[e].exists
                  /\ players[e].queen
                  /\ players[e].team = gates'[g]
                  /\ Touches(g, e)
       ]_vars

----------------------------------------------------------------------------
(* Players that join and respawn.  spawn_players (player.rs) and join      *)
(* (join.rs) build the same bundle; the crown of a queen is a sprite and   *)
(* not part of the state, `children` counts the held berries.              *)

\* WINDOW_WIDTH / 20.0
SPAWN_X == 96
\* WINDOW_TOP_Y - (WINDOW_HEIGHT / 9.0)
SPAWN_Y == 395

\* the entity ids the world hands out, in this order
EntityPool == <<"p1", "p2", "p3", "p4", "p5", "p6", "p7", "p8">>

\* commands.spawn(..).id(): an id no entity has and no queued spawn has reserved
fresh_entity(ps, cmds) ==
    LET reserved == {cmds[i].entity :
                        i \in {j \in 1..Len(cmds) : cmds[j].op = "spawn_player"}}
        free == {i \in 1..Len(EntityPool) :
                    EntityPool[i] \notin DOMAIN ps \cup reserved}
    IN  EntityPool[CHOOSE i \in free : \A j \in free : i <= j]

\* the bundle of a new player
player_bundle(ev) ==
    [exists |-> TRUE, team |-> ev.team, wings |-> ev.is_queen, queen |-> ev.is_queen,
     berry |-> FALSE, diving |-> FALSE,
     custom_size |-> IF ev.is_queen
                     THEN [x |-> QUEEN_RENDER_WIDTH, y |-> QUEEN_RENDER_HEIGHT]
                     ELSE [x |-> WORKER_RENDER_WIDTH, y |-> WORKER_RENDER_HEIGHT],
     invincible |-> ev.start_invincible,
     direction |-> IF ev.team = "Yellow" THEN "Left" ELSE "Right",
     x |-> IF ev.team = "Yellow" THEN -SPAWN_X ELSE SPAWN_X, y |-> SPAWN_Y,
     gamepad |-> ev.gamepad, riding |-> FALSE, impulse_x |-> 0, impulse_y |-> 0,
     children |-> 0, gate_timer |-> NoTimer, is_on_ground |-> FALSE,
     inv_timer |-> 0, blink_timer |-> 0, visibility |-> "Inherited"]

\* the components of a player that has been in the world for a while
LivePlayer(p) ==
    RoundPlayer(p) @@ [is_on_ground |-> FALSE, inv_timer |-> 0, blink_timer |-> 0,
                       visibility |-> "Inherited"]

----------------------------------------------------------------------------
(* The Join state (join.rs): check_for_start_game, join and disconnect.    *)

\* the entities with the JoinGate marker
JoinGate == {"jg1", "jg2"}
\* a gate of gates::setup; its five gates do not interact
MapGate == {"g1"}

\* the connected gamepads
Gamepads == {1, 2, 3}

\* join_gates.iter().all(|x| x)
all_join_gates_claimed(gs) ==
    \A g \in DOMAIN gs \cap JoinGate : gs[g] # NoTeam

check_for_start_game ==
    /\ "check_for_start_game" \in pending
    /\ state = "Join"
    /\ ~AttackInProgress
    /\ next_state' = IF all_join_gates_claimed(gates) THEN "Play" ELSE next_state
    /\ pending' = pending \ {"check_for_start_game"}
    /\ UNCHANGED <<players, ship_team, free_berries, queen_deaths, game_settings,
                   collision_events, attack_cursor, commands, ev_knockback,
                   ev_spawn_players, ev_win>>
    /\ UNCHANGED round_vars
    /\ UNCHANGED <<state, joined_players, contact_force_events, respawn_berries_ev>>
    /\ UNCHANGED spawn_vars

\* the triggers of a gamepad that are just pressed
Triggers == SUBSET {"LeftTrigger", "RightTrigger"}

\* the body of join's loop for one gamepad
join_gamepad(acc, gamepad, pressed) ==
    IF pressed # {} /\ gamepad \notin DOMAIN acc.joined
    THEN LET team == IF "LeftTrigger" \in pressed THEN "Yellow" ELSE "Purple"
             join_as_queen ==
                 ~\E e \in DOMAIN players :
                     players[e].exists /\ players[e].queen /\ players[e].team = team
             entity == fresh_entity(players, commands \o acc.cmds)
         IN  [cmds |-> Append(acc.cmds,
                  [op |-> "spawn_player", entity |-> entity,
                   player |-> player_bundle(
                       [team |-> team, is_queen |-> join_as_queen,
                        gamepad |-> gamepad, start_invincible |-> FALSE])]),
              joined |-> (gamepad :> entity) @@ acc.joined]
    ELSE acc

RECURSIVE joining(_, _, _)
joining(acc, gamepads, input) ==
    IF gamepads = {}
    THEN acc
    ELSE LET g == CHOOSE x \in gamepads : \A y \in gamepads : x <= y
         IN  joining(join_gamepad(acc, g, input[g]), gamepads \ {g}, input)

join ==
    /\ "join" \in pending
    /\ state = "Join"
    /\ ~AttackInProgress
    /\ \E input \in [Gamepads -> Triggers] :
          /\ LET acc == joining([cmds |-> <<>>, joined |-> joined_players],
                                Gamepads, input)
             IN  /\ commands' = commands \o acc.cmds
                 /\ joined_players' = acc.joined
    /\ pending' = pending \ {"join"}
    /\ UNCHANGED <<players, ship_team, free_berries, queen_deaths, game_settings,
                   collision_events, attack_cursor, ev_knockback,
                   ev_spawn_players, ev_win>>
    /\ UNCHANGED round_vars
    /\ UNCHANGED <<state, next_state, contact_force_events, respawn_berries_ev>>
    /\ UNCHANGED spawn_vars

\* for (join_gate, join_gate_team, ..) in join_gates.iter_mut(): the claims of team
release_join_gates(team) ==
    LET claimed == {g \in DOMAIN gates \cap JoinGate : gates[g] = team}
        RECURSIVE released(_)
        released(gs) ==
            IF gs = {}
            THEN <<>>
            ELSE LET g == CHOOSE x \in gs : TRUE
                 IN  << [op |-> "remove_team", entity |-> g] >> \o released(gs \ {g})
    IN  released(claimed)

\* the body of disconnect's loop for a player that presses Disconnect
disconnect_player(acc, e) ==
    [cmds |-> acc.cmds \o remove_player(e, players[e])
                  \o (IF players[e].queen
                      THEN release_join_gates(players[e].team)
                      ELSE <<>>),
     joined |-> [g \in DOMAIN acc.joined \ {players[e].gamepad} |-> acc.joined[g]]]

RECURSIVE disconnected(_, _)
disconnected(acc, es) ==
    IF es = {}
    THEN acc
    ELSE LET e == CHOOSE x \in es : TRUE
         IN  disconnected(disconnect_player(acc, e), es \ {e})

\* the players whose action_state.pressed(&Action::Disconnect) holds are an input
disconnect ==
    /\ "disconnect" \in pending
    /\ state = "Join"
    /\ ~AttackInProgress
    /\ \E pressed \in SUBSET {e \in DOMAIN players : players[e].exists} :
          LET acc == disconnected([cmds |-> <<>>, joined |-> joined_players], pressed)
          IN  /\ commands' = commands \o acc.cmds
              /\ joined_players' = acc.joined
    /\ pending' = pending \ {"disconnect"}
    /\ UNCHANGED <<players, ship_team, free_berries, queen_deaths, game_settings,
                   collision_events, attack_cursor, ev_knockback,
                   ev_spawn_players, ev_win>>
    /\ UNCHANGED round_vars
    /\ UNCHANGED <<state, next_state, contact_force_events, respawn_berries_ev>>
    /\ UNCHANGED spawn_vars

----------------------------------------------------------------------------
(* Respawn (player.rs): add_delayed_player_spawners turns every            *)
(* SpawnPlayerEvent into a DelayedPlayerSpawner, spawn_players ticks the   *)
(* spawners and builds the player when a timer has finished.  The timers   *)
(* count in seconds.                                                       *)

\* mutant: the delay of the event is not waited for
spawner_without_delay(ev) ==
    [exists |-> TRUE, elapsed |-> 0, duration |-> 0, event |-> ev]

\* DelayedPlayerSpawner { timer: Timer::from_seconds(ev.delay, Once), event: *ev }
spawner(ev) ==
    [exists |-> TRUE, elapsed |-> 0, duration |-> ev.delay, event |-> ev]

add_delayed_player_spawners ==
    /\ "add_delayed_player_spawners" \in pending
    /\ ~AttackInProgress
    /\ commands' = commands \o
          [i \in 1..Len(ev_spawn_players) |->
              [op |-> "spawn_spawner", spawner |-> spawner(ev_spawn_players[i])]]
    /\ ev_spawn_players' = <<>>
    /\ pending' = pending \ {"add_delayed_player_spawners"}
    /\ UNCHANGED <<players, ship_team, free_berries, queen_deaths, game_settings,
                   collision_events, attack_cursor, ev_knockback, ev_win>>
    /\ UNCHANGED round_vars
    /\ UNCHANGED match_vars
    /\ UNCHANGED spawn_vars

\* Timer::tick of a TimerMode::Once timer with the given duration
once_tick(elapsed, duration, dt) ==
    IF elapsed + dt > duration THEN duration ELSE elapsed + dt

\* mutant: the spawner is left in the world
spawn_and_keep_spawner(acc, i, dt) ==
    LET sp == acc.spawners[i]
        elapsed == once_tick(sp.elapsed, sp.duration, dt)
    IN  IF elapsed >= sp.duration
        THEN [cmds |-> acc.cmds \o
                  << [op |-> "spawn_player",
                      entity |-> fresh_entity(players, commands \o acc.cmds),
                      player |-> player_bundle(sp.event)] >>,
              spawners |-> [acc.spawners EXCEPT ![i].elapsed = elapsed]]
        ELSE [acc EXCEPT !.spawners[i].elapsed = elapsed]

\* the body of spawn_players' loop for the spawner at index i
spawn_player(acc, i, dt) ==
    LET sp == acc.spawners[i]
        elapsed == once_tick(sp.elapsed, sp.duration, dt)
    IN  IF elapsed >= sp.duration
        THEN [cmds |-> acc.cmds \o
                  << [op |-> "despawn_spawner", index |-> i],
                     [op |-> "spawn_player",
                      entity |-> fresh_entity(players, commands \o acc.cmds),
                      player |-> player_bundle(sp.event)] >>,
              spawners |-> [acc.spawners EXCEPT ![i].elapsed = elapsed]]
        ELSE [acc EXCEPT !.spawners[i].elapsed = elapsed]

RECURSIVE spawned(_, _, _)
spawned(acc, i, dt) ==
    IF i > Len(acc.spawners)
    THEN acc
    ELSE spawned(IF acc.spawners[i].exists THEN spawn_player(acc, i, dt) ELSE acc,
                 i + 1, dt)

spawn_players ==
    /\ "spawn_players" \in pending
    /\ ~AttackInProgress
    /\ \E dt \in 1..MaxDelta :
          LET acc == spawned([cmds |-> <<>>, spawners |-> spawners], 1, dt)
          IN  /\ commands' = commands \o acc.cmds
              /\ spawners' = acc.spawners
    /\ pending' = pending \ {"spawn_players"}
    /\ UNCHANGED <<players, ship_team, free_berries, queen_deaths, game_settings,
                   collision_events, attack_cursor, ev_knockback,
                   ev_spawn_players, ev_win, next_game_timers, win_texts>>
    /\ UNCHANGED round_vars
    /\ UNCHANGED match_vars

----------------------------------------------------------------------------
(* The StateTransition schedule, which runs before Update in every frame:  *)
(* a requested state that differs from the current one runs OnExit of the  *)
(* old and OnEnter of the new state, and the request is taken.             *)

\* the state after apply_state_transition
entered_state == IF next_state \in {NoState, state} THEN state ELSE next_state

\* reset_all_players: every player is despawned and respawns without delay
RECURSIVE reset_events(_, _)
reset_events(ps, es) ==
    IF es = {}
    THEN <<>>
    ELSE LET e == CHOOSE x \in es : TRUE
         IN  << [team |-> ps[e].team, is_queen |-> ps[e].queen,
                 gamepad |-> ps[e].gamepad, delay |-> 0,
                 start_invincible |-> FALSE] >> \o reset_events(ps, es \ {e})

\* OnExit(from): delete_temp_platforms, or reset_all_players,
\* reset_queen_lives_counter, remove_gates and remove_win_text
on_exit(w, from) ==
    CASE from = "Join" ->
            [w EXCEPT !.gates = [g \in DOMAIN @ \ JoinGate |-> @[g]]]
      [] from = "GameOver" ->
            [w EXCEPT
                !.players = [e \in DOMAIN @ |-> Despawned],
                !.ev_spawn_players =
                    @ \o reset_events(w.players,
                                      {e \in DOMAIN w.players : w.players[e].exists}),
                !.queen_deaths = [yellow_deaths |-> 0, purple_deaths |-> 0],
                !.gates = <<>>,
                !.win_texts = [i \in DOMAIN @ |-> Despawned]]
      [] OTHER -> w

\* OnEnter(to): gates::setup and setup_join spawn their gates
on_enter(w, to) ==
    IF to = "Join"
    THEN [w EXCEPT !.gates = [g \in MapGate \cup JoinGate |-> NoTeam] @@ @]
    ELSE w

apply_state_transition(w) ==
    IF entered_state # state
    THEN on_enter(on_exit(w, state), entered_state)
    ELSE w

\* Events::update, when it runs, ages the unread RespawnBerriesEvents
aged(n) == IF n > 0 THEN {n, n - 1} ELSE {0}

\* Events::update, when it runs, drops the WinEvents sent before the last
\* update: the newest events stay readable, MaxWins of them at most
kept(evs) ==
    {SubSeq(evs, k, Len(evs)) : k \in {j \in 1..(Len(evs) + 1) : Len(evs) - j < MaxWins}}

\* the schedules of a frame that run before Update
BeforeUpdate == {"Update"}

\* a frame begins after the Update schedule has run: Events::update in First,
\* then StateTransition (berries::setup sends a RespawnBerriesEvent on
\* entering Join); the Update schedule of the frame is still to run
state_transition ==
    /\ pending = {}
    /\ commands = <<>>
    /\ LET w == apply_state_transition(
                    [players |-> players, gates |-> gates,
                     queen_deaths |-> queen_deaths,
                     ev_spawn_players |-> ev_spawn_players,
                     win_texts |-> win_texts])
       IN  /\ players' = w.players
           /\ win_texts' = w.win_texts
           /\ gates' = w.gates
           /\ queen_deaths' = w.queen_deaths
           /\ ev_spawn_players' = w.ev_spawn_players
    /\ respawn_berries_ev' \in
           IF entered_state # state /\ entered_state = "Join"
           THEN {2}
           ELSE aged(respawn_berries_ev)
    /\ state' = entered_state
    /\ next_state' = NoState
    /\ pending' = BeforeUpdate
    /\ ev_win' \in kept(ev_win)
    /\ UNCHANGED <<ship_team, free_berries, game_settings, commands,
                   ev_knockback, collision_events, attack_cursor, tick,
                   berries_collected, berry_cells, berries, ship_x,
                   joined_players, contact_force_events, spawners,
                   next_game_timers>>

----------------------------------------------------------------------------
(* The join specification: the game is in Join, the Yellow queen p1 has    *)
(* joined with gamepad 1, p2 has joined for Purple with gamepad 2 as queen *)
(* or worker and flies or stands above p1, gamepad 3 has not joined, and   *)
(* each join-gate is unclaimed or claimed by either team.                  *)

JoinSystems ==
    {"check_for_start_game", "join", "disconnect", "check_worker_gate_collisions",
     "players_attack"}

JoinTouches ==
    {Started("p2", "p1"), Started("jg1", "p1"), Started("p2", "jg2")}

InitJoin ==
    /\ state = "Join"
    /\ next_state = NoState
    /\ \E r2 \in {r \in QueenRoles : ~r.diving}
                    \cup {r \in WorkerRoles : ~r.berry} :
          players =
              [p1 |-> LivePlayer(MakePlayer("p1", CHOOSE r \in QueenRoles : ~r.diving,
                                            "Yellow", "Left", FALSE, 0, 0)),
               p2 |-> LivePlayer(MakePlayer("p2", r2, "Purple", "Right", FALSE,
                                            0, 2 * WORKER_RENDER_HEIGHT))]
    /\ joined_players = joined(players)
    /\ gates \in [JoinGate \cup MapGate -> {NoTeam} \cup Team]
    /\ gates["g1"] = NoTeam
    /\ collision_events \in TouchSeqs(JoinTouches)
    /\ pending = JoinSystems
    /\ tick = MaxTicks
    /\ spawners = <<>>
    /\ next_game_timers = <<>>
    /\ win_texts = <<>>
    /\ contact_force_events = <<>>
    /\ respawn_berries_ev = 0
    /\ game_settings = [queen_lives |-> DEFAULT_QUEEN_LIVES, berries_to_win |-> 1]
    /\ berries_collected = [yellow_berries |-> 0, purple_berries |-> 0]
    /\ berry_cells = <<>>
    /\ berries = <<>>
    /\ ship_team = NoTeam
    /\ ship_x = 0
    /\ free_berries = <<>>
    /\ queen_deaths = [yellow_deaths |-> 0, purple_deaths |-> 0]
    /\ attack_cursor = 0
    /\ commands = <<>>
    /\ ev_knockback = <<>>
    /\ ev_spawn_players = <<>>
    /\ ev_win = <<>>

NextJoin ==
    \/ check_for_start_game
    \/ join
    \/ disconnect
    \/ check_worker_gate_collisions
    \/ players_attack
    \/ players_attack_return
    \/ apply_deferred
    \/ state_transition

SpecJoin == InitJoin /\ [][NextJoin]_vars

----------------------------------------------------------------------------
(* Claims about the join phase, under SpecJoin.                            *)

CheckStartStep ==
    /\ "check_for_start_game" \in pending
    /\ "check_for_start_game" \notin pending'

\* the StateTransition schedule runs and the match leaves Join for Play
EntersPlayFromJoin == state = "Join" /\ state' = "Play"

SomeJoinGateUnclaimed == \E g \in DOMAIN gates \cap JoinGate : gates[g] = NoTeam

\* C21: the match goes from Join to Play exactly when every join-gate has a
\* team: check_for_start_game requests Play iff every existing join-gate has
\* a Team, and Play is never entered from Join while a join-gate is unclaimed.
C21_PlayOnlyWhenAllClaimed ==
    [][/\ CheckStartStep => (next_state' = "Play" <=> ~SomeJoinGateUnclaimed)
       /\ EntersPlayFromJoin => ~SomeJoinGateUnclaimed]_vars

\* C21, the part that holds: the request follows the join-gates as
\* check_for_start_game reads them
C21_RequestIffAllClaimed ==
    [][CheckStartStep => (next_state' = "Play" <=> ~SomeJoinGateUnclaimed)]_vars

JoinStep == "join" \in pending /\ "join" \notin pending'

\* the live players, the unread SpawnPlayerEvents and the delayed spawners
\* that carry gamepad g
Owned(g) ==
    Cardinality({e \in DOMAIN players :
                    players[e].exists /\ players[e].gamepad = g})
    + Cardinality({i \in 1..Len(ev_spawn_players) :
                    ev_spawn_players[i].gamepad = g})
    + Cardinality({i \in 1..Len(spawners) :
                    spawners[i].exists /\ spawners[i].event.gamepad = g})

\* the players that the step queued for gamepad g
SpawnedInStep(g) ==
    {i \in 1..Len(NewCommands) :
        NewCommands[i].op = "spawn_player" /\ NewCommands[i].player.gamepad = g}

\* C22: each controller owns at most one player, counting the live players
\* and the pending respawns, once the systems and commands of a tick are
\* done (a join request of a controller that owns a player spawns nothing).
C22_OnePlayerPerController ==
    EndOfTick => \A g \in Gamepads : Owned(g) <= 1

\* C22, the part that holds: join spawns nothing for a gamepad that is in
\* JoinedPlayers when it runs
C22_JoinRejected ==
    [][JoinStep => \A g \in DOMAIN joined_players : SpawnedInStep(g) = {}]_vars

DisconnectStep == "disconnect" \in pending /\ "disconnect" \notin pending'

\* the join-gates whose team the step queued for removal
ReleasedInStep ==
    {NewCommands[i].entity :
        i \in {j \in 1..Len(NewCommands) : NewCommands[j].op = "remove_team"}}
    \cap JoinGate

\* the join-gates claimed by the team of a queen that the step removed
ClaimedByRemovedQueen ==
    {g \in DOMAIN gates \cap JoinGate :
        \E e \in KilledInStep : players[e].queen /\ gates[g] = players[e].team}

\* the entry of JoinedPlayers for the player is gone after the step
MappingRemoved(e) ==
    \/ players[e].gamepad \notin DOMAIN joined_players'
    \/ joined_players'[players[e].gamepad] # e

RemovalReleases ==
    /\ \A e \in KilledInStep : MappingRemoved(e)
    /\ ReleasedInStep = ClaimedByRemovedQueen

\* C23: a disconnect or a death of a player removes the controller-to-player
\* mapping of the player; if the player was a queen, every join-gate claimed
\* by the queen's team loses its claim and the other join-gates keep theirs.
C23_RemovalDropsMappingAndClaims ==
    [][(DisconnectStep \/ AttackStep) => RemovalReleases]_vars

\* C23, the part that holds: disconnect
C23_DisconnectDropsMappingAndClaims ==
    [][DisconnectStep => RemovalReleases]_vars

----------------------------------------------------------------------------
(* Claims about boarding, under SpecShip.                                  *)

GetOnShipStep == "get_on_ship" \in pending /\ "get_on_ship" \notin pending'

\* the players that the step queued RidingOnShip for
BoardedInStep ==
    {NewCommands[i].entity :
        i \in {j \in 1..Len(NewCommands) : NewCommands[j].op = "insert_riding"}}

\* C24: at most one worker rides the ship at any time, two workers that
\* start colliding with the unclaimed ship in the same tick included.
C24_AtMostOneRider == Cardinality(Riders) <= 1

\* C24, the part that holds: a worker that touches a claimed ship is not
\* attached
C24_ClaimedShipBoardsNobody ==
    [][GetOnShipStep /\ ship_team # NoTeam => BoardedInStep = {}]_vars

\* C25: the ship carries a team claim iff a live player rides it; the claim
\* is released when the rider leaves, so the ship lookup of move_ship never
\* fails, for every interleaving of boarding and jumping off within a tick.
C25_ClaimIffRider ==
    /\ ship_team # NoTeam <=> Riders # {}
    /\ pending # Panicked

----------------------------------------------------------------------------
(* The respawn specification: a Yellow queen p1 is in the world, up to     *)
(* MaxEvents SpawnPlayerEvents are unread and a spawner of an earlier kill *)
(* may be counting.  Frames follow one another without end; `tick` counts  *)
(* the first MaxTicks of them.                                             *)

SpawnSystems == {"add_delayed_player_spawners", "spawn_players"}

\* the players that respawn: a Purple queen and a Yellow worker
Respawning ==
    {[team |-> "Purple", is_queen |-> TRUE, gamepad |-> 2],
     [team |-> "Yellow", is_queen |-> FALSE, gamepad |-> 3]}

\* the events players_attack sends for a kill
KillEvents ==
    {[team |-> p.team, is_queen |-> p.is_queen, gamepad |-> p.gamepad,
      delay |-> RESPAWN_DELAY, start_invincible |-> TRUE] : p \in Respawning}

\* the events reset_all_players sends
ResetEvents ==
    {[team |-> p.team, is_queen |-> p.is_queen, gamepad |-> p.gamepad,
      delay |-> 0, start_invincible |-> FALSE] : p \in Respawning}

InitSpawn ==
    /\ players = [p1 |-> LivePlayer(MakePlayer("p1", CHOOSE r \in QueenRoles : ~r.diving,
                                               "Yellow", "Left", FALSE, 0, 0))]
    /\ ev_spawn_players \in
          UNION {[1..k -> KillEvents \cup ResetEvents] : k \in 0..MaxEvents}
    /\ spawners \in
          {<<>>} \cup {<<[spawner(ev) EXCEPT !.elapsed = n]>> :
                          ev \in KillEvents, n \in 0..(RESPAWN_DELAY - 1)}
    /\ pending = SpawnSystems
    /\ tick = 1
    /\ state = "Play"
    /\ next_state = NoState
    /\ joined_players = joined(players)
    /\ next_game_timers = <<>>
    /\ win_texts = <<>>
    /\ contact_force_events = <<>>
    /\ respawn_berries_ev = 0
    /\ game_settings = [queen_lives |-> DEFAULT_QUEEN_LIVES, berries_to_win |-> 1]
    /\ berries_collected = [yellow_berries |-> 0, purple_berries |-> 0]
    /\ berry_cells = <<>>
    /\ berries = <<>>
    /\ gates = <<>>
    /\ ship_team = NoTeam
    /\ ship_x = 0
    /\ free_berries = <<>>
    /\ queen_deaths = [yellow_deaths |-> 0, purple_deaths |-> 0]
    /\ collision_events = <<>>
    /\ attack_cursor = 0
    /\ commands = <<>>
    /\ ev_knockback = <<>>
    /\ ev_win = <<>>

\* the next run of the Update schedule begins
next_run(systems) ==
    /\ pending = {}
    /\ commands = <<>>
    /\ tick' = IF tick < MaxTicks THEN tick + 1 ELSE tick
    /\ pending' = systems
    /\ UNCHANGED <<players, ship_team, free_berries, queen_deaths, game_settings,
                   collision_events, attack_cursor, commands, ev_knockback,
                   ev_spawn_players, ev_win,
                   berries_collected, berry_cells, berries, gates, ship_x>>
    /\ UNCHANGED match_vars
    /\ UNCHANGED spawn_vars

NextSpawn ==
    \/ add_delayed_player_spawners
    \/ spawn_players
    \/ apply_deferred
    \/ next_run(SpawnSystems)

\* the schedule keeps running
SpecSpawn == InitSpawn /\ [][NextSpawn]_vars /\ WF_vars(NextSpawn)

----------------------------------------------------------------------------
(* Claims about respawning, under SpecSpawn.                               *)

AddSpawnersStep ==
    /\ "add_delayed_player_spawners" \in pending
    /\ "add_delayed_player_spawners" \notin pending'

SpawnPlayersStep == "spawn_players" \in pending /\ "spawn_players" \notin pending'

CommandsOf(cmds, op) == {k \in 1..Len(cmds) : cmds[k].op = op}

\* the events that have not led to a player yet: unread, queued as a spawner
\* or counting on a spawner that is not queued for despawn
Unspawned ==
    Len(ev_spawn_players)
    + Cardinality(CommandsOf(commands, "spawn_spawner"))
    + Cardinality({i \in 1..Len(spawners) :
          /\ spawners[i].exists
          /\ \A k \in CommandsOf(commands, "despawn_spawner") :
                commands[k].index # i})

\* the players in the world or queued for it
Spawned ==
    Cardinality({e \in DOMAIN players : players[e].exists})
    + Cardinality(CommandsOf(commands, "spawn_player"))

\* the player is the one that the event asks for
BuiltFrom(p, ev) ==
    /\ p.exists
    /\ p.team = ev.team
    /\ p.queen = ev.is_queen
    /\ p.wings = ev.is_queen
    /\ p.gamepad = ev.gamepad
    /\ p.invincible = ev.start_invincible

\* the timer of spawner i has finished in this step
FinishedInStep(i) ==
    spawners[i].exists /\ spawners'[i].elapsed >= spawners[i].event.delay

\* the commands of the step that despawn spawner i
DespawnsOf(i) ==
    {k \in CommandsOf(NewCommands, "despawn_spawner") : NewCommands[k].index = i}

NothingToSpawn ==
    /\ ev_spawn_players = <<>>
    /\ commands = <<>>
    /\ \A i \in 1..Len(spawners) : ~spawners[i].exists

\* C26: every SpawnPlayerEvent leads to exactly one new player: each event
\* becomes one spawner with the event's delay, a spawner builds its player
\* in the tick its timer reaches the delay and not before, with the event's
\* team, role, controller and Invincible iff start_invincible, the spawner
\* is despawned with it, and in the end every event has been served.
C26_EventSpawnsOnePlayer ==
    /\ [][Unspawned' + Spawned' = Unspawned + Spawned]_vars
    /\ [][AddSpawnersStep =>
            /\ ev_spawn_players' = <<>>
            /\ Len(NewCommands) = Len(ev_spawn_players)
            /\ \A k \in 1..Len(NewCommands) :
                  /\ NewCommands[k].op = "spawn_spawner"
                  /\ NewCommands[k].spawner.event = ev_spawn_players[k]
                  /\ NewCommands[k].spawner.duration = ev_spawn_players[k].delay
                  /\ NewCommands[k].spawner.elapsed = 0]_vars
    /\ [][SpawnPlayersStep =>
            /\ \A i \in 1..Len(spawners) :
                  /\ spawners[i].exists =>
                        spawners'[i].elapsed <= spawners[i].elapsed + MaxDelta
                  /\ IF FinishedInStep(i)
                     THEN /\ Cardinality(DespawnsOf(i)) = 1
                          /\ \A k \in DespawnsOf(i) :
                                /\ k < Len(NewCommands)
                                /\ NewCommands[k + 1].op = "spawn_player"
                                /\ BuiltFrom(NewCommands[k + 1].player,
                                             spawners[i].event)
                     ELSE DespawnsOf(i) = {}
            /\ Cardinality(CommandsOf(NewCommands, "spawn_player"))
                  = Cardinality({i \in 1..Len(spawners) : FinishedInStep(i)})]_vars
    /\ <>[]NothingToSpawn

\* two spawners finish in one run of spawn_players
C26_Witness ==
    /\ Cardinality(CommandsOf(commands, "spawn_player")) = 2
    /\ \E i \in 1..Len(spawners) :
          spawners[i].exists /\ spawners[i].event.delay = RESPAWN_DELAY
          /\ spawners[i].elapsed = RESPAWN_DELAY

\* a player of a kill has respawned Invincible and nothing is left to spawn
C26_WitnessRespawned ==
    /\ NothingToSpawn
    /\ \E e \in DOMAIN players \ {"p1"} : players[e].exists /\ players[e].invincible

----------------------------------------------------------------------------
(* Invincibility (player.rs): handle_invincibility ticks the two timers of *)
(* every Invincible player.  These timers count in twentieths of a second. *)

\* INVINCIBILITY_DURATION = 2.0
INVINCIBILITY_DURATION == 40
\* animation_timer: Timer::from_seconds(0.1, TimerMode::Repeating)
BLINK_DURATION == 2

\* match visibility { Visible | Inherited => Hidden, Hidden => Visible }
toggled(visibility) == IF visibility = "Hidden" THEN "Visible" ELSE "Hidden"

\* mutant: the blink toggle is queued after the final Visible
blink_last(ps, e, dt) ==
    (IF ps[e].inv_timer + dt >= INVINCIBILITY_DURATION
     THEN << [op |-> "insert_visibility", entity |-> e, visibility |-> "Visible"],
             [op |-> "remove_invincible", entity |-> e] >>
     ELSE <<>>)
    \o
    (IF ps[e].blink_timer + dt >= BLINK_DURATION
     THEN << [op |-> "insert_visibility", entity |-> e,
              visibility |-> toggled(ps[e].visibility)] >>
     ELSE <<>>)

\* the commands of handle_invincibility's loop body for player e
blink(ps, e, dt) ==
    (IF ps[e].blink_timer + dt >= BLINK_DURATION
     THEN << [op |-> "insert_visibility", entity |-> e,
              visibility |-> toggled(ps[e].visibility)] >>
     ELSE <<>>)
    \o
    (IF ps[e].inv_timer + dt >= INVINCIBILITY_DURATION
     THEN << [op |-> "insert_visibility", entity |-> e, visibility |-> "Visible"],
             [op |-> "remove_invincible", entity |-> e] >>
     ELSE <<>>)

RECURSIVE blinked(_, _, _)
blinked(ps, es, dt) ==
    IF es = {}
    THEN <<>>
    ELSE LET e == CHOOSE x \in es : TRUE
         IN  blink(ps, e, dt) \o blinked(ps, es \ {e}, dt)

\* the players of the query (Entity, &mut Invincible, &Visibility)
InvinciblePlayers(ps) == {e \in DOMAIN ps : ps[e].exists /\ ps[e].invincible}

handle_invincibility ==
    /\ "handle_invincibility" \in pending
    /\ ~AttackInProgress
    /\ \E dt \in 1..MaxDelta :
          /\ commands' = commands \o blinked(players, InvinciblePlayers(players), dt)
          /\ players' =
                [e \in DOMAIN players |->
                    IF e \in InvinciblePlayers(players)
                    THEN [players[e] EXCEPT
                            !.inv_timer =
                                once_tick(@, INVINCIBILITY_DURATION, dt),
                            !.blink_timer = (@ + dt) % BLINK_DURATION]
                    ELSE players[e]]
    /\ pending' = pending \ {"handle_invincibility"}
    /\ UNCHANGED <<ship_team, free_berries, queen_deaths, game_settings,
                   collision_events, attack_cursor, ev_knockback,
                   ev_spawn_players, ev_win>>
    /\ UNCHANGED round_vars
    /\ UNCHANGED match_vars
    /\ UNCHANGED spawn_vars

----------------------------------------------------------------------------
(* The invincibility specification: the Yellow queen p1 has no Invincible, *)
(* the Purple worker p2 has respawned with it some frames ago.  Both       *)
(* timers have ticked the same deltas since; a frame toggles the           *)
(* visibility once, however long it is, so after two blink periods the     *)
(* player can be Hidden or Visible.  Frames follow one another without     *)
(* end; `tick` counts the first MaxTicks of them.                          *)

InvSystems == {"handle_invincibility"}

InitInv ==
    /\ \E v \in {"Inherited", "Visible"}, n \in 0..(INVINCIBILITY_DURATION - 1),
          v2 \in {"Inherited", "Hidden", "Visible"} :
          /\ v2 = "Inherited" <=> n < BLINK_DURATION
          /\ v2 = "Visible" => n >= 2 * BLINK_DURATION
          /\ players =
              [p1 |-> [LivePlayer(MakePlayer("p1", CHOOSE r \in QueenRoles : ~r.diving,
                                             "Yellow", "Left", FALSE, 0, 0))
                          EXCEPT !.visibility = v],
               p2 |-> [player_bundle(
                          [team |-> "Purple", is_queen |-> FALSE, gamepad |-> 2,
                           delay |-> RESPAWN_DELAY, start_invincible |-> TRUE])
                          EXCEPT !.inv_timer = n,
                                 !.blink_timer = n % BLINK_DURATION,
                                 !.visibility = v2]]
    /\ ev_spawn_players = <<>>
    /\ spawners = <<>>
    /\ pending = InvSystems
    /\ tick = 1
    /\ state = "Play"
    /\ next_state = NoState
    /\ joined_players = joined(players)
    /\ next_game_timers = <<>>
    /\ win_texts = <<>>
    /\ contact_force_events = <<>>
    /\ respawn_berries_ev = 0
    /\ game_settings = [queen_lives |-> DEFAULT_QUEEN_LIVES, berries_to_win |-> 1]
    /\ berries_collected = [yellow_berries |-> 0, purple_berries |-> 0]
    /\ berry_cells = <<>>
    /\ berries = <<>>
    /\ gates = <<>>
    /\ ship_team = NoTeam
    /\ ship_x = 0
    /\ free_berries = <<>>
    /\ queen_deaths = [yellow_deaths |-> 0, purple_deaths |-> 0]
    /\ collision_events = <<>>
    /\ attack_cursor = 0
    /\ commands = <<>>
    /\ ev_knockback = <<>>
    /\ ev_win = <<>>

NextInv ==
    \/ handle_invincibility
    \/ apply_deferred
    \/ next_run(InvSystems)

\* the schedule keeps running
SpecInv == InitInv /\ [][NextInv]_vars /\ WF_vars(NextInv)

----------------------------------------------------------------------------
(* Claims about invincibility, under SpecInv.                              *)

HandleInvincibilityStep ==
    /\ "handle_invincibility" \in pending
    /\ "handle_invincibility" \notin pending'

\* the commands of the step that name player e
StepCommandsOf(e, op) ==
    {k \in CommandsOf(NewCommands, op) : NewCommands[k].entity = e}

\* the Invincible of player e is gone after the step
LosesInvincible(e) == players[e].invincible /\ ~players'[e].invincible

\* C27: invincibility always ends: a player keeps Invincible until its timer
\* has accumulated INVINCIBILITY_DURATION; the tick that finishes the timer
\* queues the removal, and when it is applied the player is Visible whatever
\* the blink of that tick queued; handle_invincibility queues nothing for a
\* player without Invincible.
C27_InvincibilityEnds ==
    /\ [][\A e \in DOMAIN players :
            /\ LosesInvincible(e) =>
                  /\ players[e].inv_timer >= INVINCIBILITY_DURATION
                  /\ players'[e].visibility = "Visible"
            /\ HandleInvincibilityStep =>
                  /\ StepCommandsOf(e, "remove_invincible") # {}
                        <=> /\ players[e].invincible
                            /\ players'[e].inv_timer >= INVINCIBILITY_DURATION
                  /\ ~players[e].invincible =>
                        StepCommandsOf(e, "insert_visibility") = {}]_vars
    /\ players["p2"].invincible ~> ~players["p2"].invincible

\* in the finishing tick the blink hides the player and the timer shows it
C27_Witness ==
    /\ players["p2"].invincible
    /\ players["p2"].inv_timer = INVINCIBILITY_DURATION
    /\ \E k \in 1..(Len(commands) - 1) :
          /\ commands[k] = [op |-> "insert_visibility", entity |-> "p2",
                            visibility |-> "Hidden"]
          /\ commands[k + 1] = [op |-> "insert_visibility", entity |-> "p2",
                                visibility |-> "Visible"]

\* invincibility has ended and the player is shown
C27_WitnessEnded ==
    /\ ~players["p2"].invincible
    /\ players["p2"].visibility = "Visible"
    /\ players["p2"].inv_timer = INVINCIBILITY_DURATION

----------------------------------------------------------------------------
(* Claims about the counters of a match, under SpecJoin.                   *)

\* C28: whenever the game enters Play, both QueenDeaths counters and both
\* BerriesCollected counters are zero, whatever happened during Join.
C28_CountersZeroOnPlay ==
    [][EntersPlayFromJoin =>
          /\ queen_deaths' = [yellow_deaths |-> 0, purple_deaths |-> 0]
          /\ berries_collected' = [yellow_berries |-> 0, purple_berries |-> 0]]_vars

----------------------------------------------------------------------------
(* Ground contact (player.rs): check_if_players_on_ground recomputes the   *)
(* is_on_ground flag of every player from the ContactForceEvents it reads, *)
(* and jump, one of the movement systems declared after it, reads the flag.*)

\* the event names entity e with a non-zero max_force_direction.y
grounds(ev, e) == e \in {ev.collider1, ev.collider2} /\ ev.y # 0

\* mutant: the flags are not cleared before the events are read
grounded_keep(ps, evs) ==
    [e \in DOMAIN ps |->
        IF ps[e].exists
        THEN [ps[e] EXCEPT !.is_on_ground =
                 @ \/ \E i \in 1..Len(evs) : grounds(evs[i], e)]
        ELSE ps[e]]

\* the flags after both loops of check_if_players_on_ground
grounded(ps, evs) ==
    [e \in DOMAIN ps |->
        IF ps[e].exists
        THEN [ps[e] EXCEPT !.is_on_ground =
                 \E i \in 1..Len(evs) : grounds(evs[i], e)]
        ELSE ps[e]]

check_if_players_on_ground ==
    /\ "check_if_players_on_ground" \in pending
    /\ players' = grounded(players, contact_force_events)
    /\ pending' = pending \ {"check_if_players_on_ground"}
    /\ UNCHANGED <<ship_team, free_berries, queen_deaths, game_settings,
                   collision_events, attack_cursor, commands, ev_knockback,
                   ev_spawn_players, ev_win>>
    /\ UNCHANGED round_vars
    /\ UNCHANGED match_vars
    /\ UNCHANGED spawn_vars

\* jump: a player without Wings that has just pressed Jump on the ground
jumping(ps, pressed) ==
    [e \in DOMAIN ps |->
        IF ps[e].exists /\ ~ps[e].wings /\ e \in pressed /\ ps[e].is_on_ground
        THEN [ps[e] EXCEPT !.impulse_y = @ + PLAYER_JUMP_IMPULSE]
        ELSE ps[e]]

jump ==
    /\ "jump" \in pending
    /\ "check_if_players_on_ground" \notin pending
    /\ \E pressed \in SUBSET {e \in DOMAIN players : players[e].exists} :
          players' = jumping(players, pressed)
    /\ pending' = pending \ {"jump"}
    /\ UNCHANGED <<ship_team, free_berries, queen_deaths, game_settings,
                   collision_events, attack_cursor, commands, ev_knockback,
                   ev_spawn_players, ev_win>>
    /\ UNCHANGED round_vars
    /\ UNCHANGED match_vars
    /\ UNCHANGED spawn_vars

----------------------------------------------------------------------------
(* The order specification: one run of the Update schedule with the        *)
(* systems of PlayerPlugin whose order the plugin declares, and            *)
(* add_delayed_player_spawners.  The Yellow queen p1 flies or stands below *)
(* the Purple worker p2; the flags are those of the previous tick.         *)

OrderSystems ==
    {"check_if_players_on_ground", "jump", "players_attack", "apply_knockbacks",
     "add_delayed_player_spawners"}

\* the contact-force events of a tick: a player on a platform, two players,
\* a berry on a platform
ContactForces ==
    {[collider1 |-> c[1], collider2 |-> c[2], y |-> y] :
        c \in {<<"p1", WallEntity>>, <<WallEntity, "p2">>, <<"p2", "p1">>,
               <<"b1", WallEntity>>},
        y \in {0, 1}}

OrderTouches == {Started("p2", "p1")}

InitOrder ==
    /\ \E g1 \in BOOLEAN, g2 \in BOOLEAN :
          players =
              [p1 |-> [LivePlayer(MakePlayer("p1", CHOOSE r \in QueenRoles : ~r.diving,
                                             "Yellow", "Left", FALSE, 0, 0))
                          EXCEPT !.is_on_ground = g1],
               p2 |-> [LivePlayer(MakePlayer("p2", CHOOSE r \in WorkerRoles : ~r.berry,
                                             "Purple", "Right", FALSE,
                                             0, 2 * WORKER_RENDER_HEIGHT))
                          EXCEPT !.is_on_ground = g2]]
    /\ contact_force_events \in
          UNION {[1..k -> ContactForces] : k \in 0..MaxTouches}
    /\ collision_events \in TouchSeqs(OrderTouches)
    /\ pending = OrderSystems
    /\ tick = MaxTicks
    /\ state = "Play"
    /\ next_state = NoState
    /\ joined_players = joined(players)
    /\ spawners = <<>>
    /\ next_game_timers = <<>>
    /\ win_texts = <<>>
    /\ respawn_berries_ev = 0
    /\ game_settings = [queen_lives |-> DEFAULT_QUEEN_LIVES, berries_to_win |-> 1]
    /\ berries_collected = [yellow_berries |-> 0, purple_berries |-> 0]
    /\ berry_cells = <<>>
    /\ berries = <<>>
    /\ gates = <<>>
    /\ ship_team = NoTeam
    /\ ship_x = 0
    /\ free_berries = <<>>
    /\ queen_deaths = [yellow_deaths |-> 0, purple_deaths |-> 0]
    /\ attack_cursor = 0
    /\ commands = <<>>
    /\ ev_knockback = <<>>
    /\ ev_spawn_players = <<>>
    /\ ev_win = <<>>

NextOrder ==
    \/ check_if_players_on_ground
    \/ jump
    \/ players_attack
    \/ players_attack_return
    \/ apply_knockbacks
    \/ add_delayed_player_spawners
    \/ apply_deferred

SpecOrder == InitOrder /\ [][NextOrder]_vars

----------------------------------------------------------------------------
(* Claims about ground contact and the declared order, under SpecOrder.    *)

GroundStep ==
    /\ "check_if_players_on_ground" \in pending
    /\ "check_if_players_on_ground" \notin pending'

\* a contact-force event of the tick names e and has a vertical force
TouchesGround(e) ==
    \E i \in 1..Len(contact_force_events) :
        /\ e \in {contact_force_events[i].collider1, contact_force_events[i].collider2}
        /\ contact_force_events[i].y # 0

\* C29: after check_if_players_on_ground a player's is_on_ground is true iff
\* a contact-force event of the tick names the player and has a non-zero
\* vertical force; a flag of an earlier tick does not survive, and nothing
\* else changes, whatever other entities the events name.
C29_GroundFlagFollowsContacts ==
    [][GroundStep =>
          /\ DOMAIN players' = DOMAIN players
          /\ \A e \in DOMAIN players :
                IF players[e].exists
                THEN /\ players'[e].is_on_ground <=> TouchesGround(e)
                     /\ players'[e] =
                           [players[e] EXCEPT !.is_on_ground = TouchesGround(e)]
                ELSE players'[e] = players[e]
          /\ UNCHANGED <<berries, gates, ship_team, commands>>]_vars

\* p2 is on the ground, p1 is not: the event that names p1 has no vertical
\* force
C29_Witness ==
    /\ "check_if_players_on_ground" \notin pending
    /\ "jump" \in pending
    /\ ~players["p1"].is_on_ground
    /\ players["p2"].is_on_ground
    /\ \E i \in 1..Len(contact_force_events) :
          /\ contact_force_events[i].collider1 = "p1"
          /\ contact_force_events[i].y = 0

\* an event that names no player has been read and no flag is set
C29_WitnessNoPlayer ==
    /\ "check_if_players_on_ground" \notin pending
    /\ \A e \in DOMAIN players : players[e].exists /\ ~players[e].is_on_ground
    /\ \E i \in 1..Len(contact_force_events) :
          contact_force_events[i].collider1 = "b1" /\ contact_force_events[i].y # 0

JumpStep == "jump" \in pending /\ "jump" \notin pending'

\* players_attack reads an event or returns
AttackRuns == AttackStep \/ ("players_attack" \in pending /\ "players_attack" \notin pending')

GroundAndKnockbackOrder ==
    /\ JumpStep \/ AttackRuns => "check_if_players_on_ground" \notin pending
    /\ ApplyKnockbacksStep => "players_attack" \notin pending

\* C30: in every tick ground-contact tracking runs before movement and
\* before players_attack, apply_knockbacks runs after players_attack, and
\* add_delayed_player_spawners runs after players_attack, so that the
\* SpawnPlayerEvent of a kill is a spawner when the tick is over.
C30_DeclaredOrder ==
    [][/\ GroundAndKnockbackOrder
       /\ AddSpawnersStep => "players_attack" \notin pending
       /\ EndOfTick' => ev_spawn_players' = <<>>]_vars

\* C30, the part that holds: the order the plugin declares
C30_GroundAndKnockbackOrder == [][GroundAndKnockbackOrder]_vars


----------------------------------------------------------------------------
(* The match controller (main.rs): set_win_text ends the match on a        *)
(* WinEvent and start_next_game returns to Join once the NextGameTimer has *)
(* finished.  One unit of time is one second.                              *)

\* Timer::from_seconds(3.0, TimerMode::Once)
NEXT_GAME_DELAY == 3

\* mutant: only the first event is acted on
first_win_text_commands(evs) ==
    IF evs = <<>>
    THEN <<>>
    ELSE << [op |-> "spawn_win_text", text |-> evs[1]],
            [op |-> "spawn_next_game_timer"] >>

\* for win_event in ev_win.read(): a WinText and a NextGameTimer are spawned
RECURSIVE win_text_commands(_)
win_text_commands(evs) ==
    IF evs = <<>>
    THEN <<>>
    ELSE << [op |-> "spawn_win_text", text |-> Head(evs)],
            [op |-> "spawn_next_game_timer"] >> \o win_text_commands(Tail(evs))

set_win_text ==
    /\ "set_win_text" \in pending
    /\ ~AttackInProgress
    /\ IF state # "Play"
       THEN UNCHANGED <<commands, next_state, ev_win>>
       ELSE /\ commands' = commands \o win_text_commands(ev_win)
            /\ next_state' = IF ev_win # <<>> THEN "GameOver" ELSE next_state
            /\ ev_win' = <<>>
    /\ pending' = pending \ {"set_win_text"}
    /\ UNCHANGED <<players, ship_team, free_berries, queen_deaths, game_settings,
                   collision_events, attack_cursor, ev_knockback,
                   ev_spawn_players>>
    /\ UNCHANGED round_vars
    /\ UNCHANGED <<state, joined_players, contact_force_events, respawn_berries_ev>>
    /\ UNCHANGED spawn_vars

\* mutant: the finished timer stays in the world
next_game_timer_kept(acc, i, dt) ==
    LET elapsed == once_tick(acc.timers[i].elapsed, NEXT_GAME_DELAY, dt)
    IN  IF elapsed >= NEXT_GAME_DELAY
        THEN [acc EXCEPT !.timers[i].elapsed = elapsed, !.next_state = "Join"]
        ELSE [acc EXCEPT !.timers[i].elapsed = elapsed]

\* the body of start_next_game's loop for the timer at index i
next_game_timer(acc, i, dt) ==
    LET elapsed == once_tick(acc.timers[i].elapsed, NEXT_GAME_DELAY, dt)
    IN  IF elapsed >= NEXT_GAME_DELAY
        THEN [cmds |-> Append(acc.cmds,
                              [op |-> "despawn_next_game_timer", index |-> i]),
              timers |-> [acc.timers EXCEPT ![i].elapsed = elapsed],
              next_state |-> "Join"]
        ELSE [acc EXCEPT !.timers[i].elapsed = elapsed]

RECURSIVE next_game_timers_ticked(_, _, _)
next_game_timers_ticked(acc, i, dt) ==
    IF i > Len(acc.timers)
    THEN acc
    ELSE next_game_timers_ticked(
             IF acc.timers[i].exists THEN next_game_timer(acc, i, dt) ELSE acc,
             i + 1, dt)

start_next_game ==
    /\ "start_next_game" \in pending
    /\ ~AttackInProgress
    /\ \E dt \in 1..MaxDelta :
          LET acc == next_game_timers_ticked(
                         [cmds |-> <<>>, timers |-> next_game_timers,
                          next_state |-> next_state], 1, dt)
          IN  /\ commands' = commands \o acc.cmds
              /\ next_game_timers' = acc.timers
              /\ next_state' = acc.next_state
    /\ pending' = pending \ {"start_next_game"}
    /\ UNCHANGED <<players, ship_team, free_berries, queen_deaths, game_settings,
                   collision_events, attack_cursor, ev_knockback,
                   ev_spawn_players, ev_win, spawners, win_texts>>
    /\ UNCHANGED round_vars
    /\ UNCHANGED <<state, joined_players, contact_force_events, respawn_berries_ev>>

\* the systems with run_if(in_state(GameState::Join))
JoinOnly == {"check_for_start_game", "join", "disconnect"}

\* the Update schedule of the frame begins; a system whose run condition
\* fails is skipped
run_update(systems) ==
    /\ pending = BeforeUpdate
    /\ pending' = IF state = "Join" THEN systems ELSE systems \ JoinOnly
    /\ tick' = IF tick < MaxTicks THEN tick + 1 ELSE tick
    /\ UNCHANGED <<players, ship_team, free_berries, queen_deaths, game_settings,
                   collision_events, attack_cursor, commands, ev_knockback,
                   ev_spawn_players, ev_win,
                   berries_collected, berry_cells, berries, gates, ship_x>>
    /\ UNCHANGED match_vars
    /\ UNCHANGED spawn_vars

----------------------------------------------------------------------------
(* The match specification: the game is in Join with each join-gate        *)
(* claimed or not; the Yellow worker p1 stands beside the unclaimed ship   *)
(* or has ridden it to one move short of Yellow's win spot or past it; the *)
(* Yellow queen has died in Join as often as the military win takes, or    *)
(* never.                                                                  *)

GameSystems ==
    {"check_for_start_game", "set_win_text", "start_next_game",
     "check_for_ship_win", "check_for_queen_death_win"}

InitGame ==
    /\ state = "Join"
    /\ next_state = NoState
    /\ \E rides \in BOOLEAN :
          /\ ship_team = IF rides THEN "Yellow" ELSE NoTeam
          /\ ship_x \in IF rides
                        THEN {ship_direction("Yellow") * (SHIP_WIN_SPOT + 1 - back * SHIP_SPEED)
                                 : back \in 0..1}
                        ELSE {0}
          /\ players =
                [p1 |-> [LivePlayer(MakePlayer("p1", CHOOSE r \in WorkerRoles : ~r.berry,
                                               "Yellow", "Right", FALSE,
                                               ship_x - SHIP_REACH, SHIP_Y))
                            EXCEPT !.riding = rides,
                                   !.x = IF rides THEN ship_x ELSE @]]
    /\ joined_players = joined(players)
    /\ gates \in [JoinGate \cup MapGate -> {NoTeam, "Yellow"}]
    /\ gates["g1"] = NoTeam
    /\ queen_deaths \in {[yellow_deaths |-> n, purple_deaths |-> 0] :
                            n \in {0, QUEEN_DEATHS_TO_WIN}}
    /\ pending = GameSystems
    /\ tick = 1
    /\ collision_events = <<>>
    /\ spawners = <<>>
    /\ next_game_timers = <<>>
    /\ win_texts = <<>>
    /\ contact_force_events = <<>>
    /\ respawn_berries_ev = 0
    /\ game_settings = [queen_lives |-> DEFAULT_QUEEN_LIVES, berries_to_win |-> 1]
    /\ berries_collected = [yellow_berries |-> 0, purple_berries |-> 0]
    /\ berry_cells = <<>>
    /\ berries = <<>>
    /\ free_berries = <<>>
    /\ attack_cursor = 0
    /\ commands = <<>>
    /\ ev_knockback = <<>>
    /\ ev_spawn_players = <<>>
    /\ ev_win = <<>>

NextGame ==
    \/ check_for_start_game
    \/ set_win_text
    \/ start_next_game
    \/ check_for_ship_win
    \/ check_for_queen_death_win
    \/ apply_deferred
    \/ state_transition
    \/ run_update(GameSystems)

\* the frames keep coming
SpecGame == InitGame /\ [][NextGame]_vars /\ WF_vars(NextGame)


----------------------------------------------------------------------------
(* Claims about the match controller, under SpecGame.                      *)

SetWinTextStep == "set_win_text" \in pending /\ "set_win_text" \notin pending'

\* C31: when set_win_text finds WinEvents to read during Play, it acts on the
\* first one only: GameOver is requested and the commands it queues are one
\* WinText, that of the first event, and one NextGameTimer; while the state
\* is not Play it queues nothing, requests nothing and reads nothing
C31_FirstWinEventOnly ==
    [][SetWinTextStep =>
          IF state = "Play" /\ ev_win # <<>>
          THEN /\ next_state' = "GameOver"
               /\ NewCommands = << [op |-> "spawn_win_text", text |-> ev_win[1]],
                                   [op |-> "spawn_next_game_timer"] >>
          ELSE /\ NewCommands = <<>>
               /\ next_state' = next_state
               /\ state # "Play" => ev_win' = ev_win]_vars


\* a NextGameTimer is in the world
TimerCounting == \E i \in DOMAIN next_game_timers : next_game_timers[i].exists

\* the match state changes along the cycle only, GameOver is entered with
\* the WinText and the NextGameTimer of a WinEvent in the world, and the
\* timer is gone when Join is entered
AlongTheCycle ==
    state' # state =>
        \/ state = "Join" /\ state' = "Play"
        \/ /\ state = "Play" /\ state' = "GameOver"
           /\ TimerCounting'
           /\ \E i \in DOMAIN win_texts' : win_texts'[i].exists
        \/ state = "GameOver" /\ state' = "Join" /\ ~TimerCounting'

StartNextGameStep ==
    "start_next_game" \in pending /\ "start_next_game" \notin pending'

\* C32: the match state only moves along Join -> Play -> GameOver -> Join, with
\* GameOver entered from Play upon a WinEvent; every GameOver is eventually
\* followed by Join; and outside GameOver no NextGameTimer finishes: in Join
\* there is none, and in Play start_next_game does not request Join
C32_StateCycle ==
    /\ [][AlongTheCycle]_vars
    /\ (state = "GameOver") ~> (state = "Join")
    /\ [](state = "Join" => ~TimerCounting)
    /\ [][StartNextGameStep /\ state = "Play" => next_state' # "Join"]_vars

\* a match has ended and the game is back in Join, its timers despawned
C32_Witness ==
    /\ state = "Join"
    /\ next_game_timers # <<>>
    /\ \A i \in DOMAIN next_game_timers : ~next_game_timers[i].exists


\* C40: when a match has ended and the game returns to Join, the ship is
\* unclaimed and within the win threshold, so the ship win of the last match
\* holds no longer
C40_ShipResetOnReturnToJoin ==
    [][state = "GameOver" /\ state' = "Join" =>
          ship_wins(ship_x', ship_team') = <<>>]_vars


----------------------------------------------------------------------------
(* handle_respawn_berries_event (berries.rs): while a RespawnBerriesEvent  *)
(* is in the buffers the counters are reset, the free berries and all      *)
(* cells are despawned and the bunches and cells are laid out again.  The  *)
(* model follows one berry of the first bunch.                             *)

\* the entity ids the world hands out to cells and to berries, in this order
CellPool ==
    <<"c1", "c2", "c3", "c4", "c5", "c6", "c7", "c8", "c9", "c10", "c11", "c12">>
BerryPool == <<"b1", "b2", "b3", "b4", "b5">>

\* commands.spawn(..): the first id of the pool that is not in use
fresh(pool, used) ==
    pool[CHOOSE i \in 1..Len(pool) :
            pool[i] \notin used /\ \A j \in 1..(i - 1) : pool[j] \in used]

\* for x in -2..100 { for y in (0..3).rev() { .. } }
LAYOUT_COLUMNS == 102
LAYOUT_ROWS == 3

\* mutant: the layout of a team ends one cell late
RECURSIVE team_cells_late(_, _, _, _)
team_cells_late(team, berries_to_win, used, cells_placed) ==
    LET c == fresh(CellPool, used)
    IN  << [op |-> "spawn_cell", entity |-> c, team |-> team] >> \o
        (IF \/ cells_placed + 1 > berries_to_win
            \/ cells_placed + 1 >= LAYOUT_COLUMNS * LAYOUT_ROWS
         THEN <<>>
         ELSE team_cells_late(team, berries_to_win, used \cup {c}, cells_placed + 1))

\* the cells of one team: cells_placed >= berries_to_win ends the layout
RECURSIVE team_cells(_, _, _, _)
team_cells(team, berries_to_win, used, cells_placed) ==
    LET c == fresh(CellPool, used)
    IN  << [op |-> "spawn_cell", entity |-> c, team |-> team] >> \o
        (IF \/ cells_placed + 1 >= berries_to_win
            \/ cells_placed + 1 >= LAYOUT_COLUMNS * LAYOUT_ROWS
         THEN <<>>
         ELSE team_cells(team, berries_to_win, used \cup {c}, cells_placed + 1))

\* for team in [Team::Yellow, Team::Purple]
cell_layout(berries_to_win, used) ==
    LET yellow == team_cells("Yellow", berries_to_win, used, 0)
    IN  yellow \o team_cells("Purple", berries_to_win,
                             used \cup {yellow[i].entity : i \in DOMAIN yellow}, 0)

\* for entity in &query { commands.entity(entity).despawn() }
RECURSIVE despawn_all(_, _)
despawn_all(op, es) ==
    IF es = {}
    THEN <<>>
    ELSE LET e == CHOOSE x \in es : TRUE
         IN  << [op |-> op, entity |-> e] >> \o despawn_all(op, es \ {e})

\* the commands of handle_respawn_berries_event
respawn_commands ==
    despawn_all("despawn", {b \in DOMAIN berries : berries[b].exists})
    \o [i \in 1..Len(free_berries) |-> [op |-> "despawn_free_berry"]]
    \o despawn_all("despawn_cell", DOMAIN berry_cells)
    \o << [op |-> "spawn_bunch_berry",
           entity |-> fresh(BerryPool, DOMAIN berries)] >>
    \o cell_layout(game_settings.berries_to_win, DOMAIN berry_cells)

\* the EventReader is asked is_empty() and never read: the handler acts on
\* every run for which the event is still in the buffers
handle_respawn_berries_event ==
    /\ "handle_respawn_berries_event" \in pending
    /\ ~AttackInProgress
    /\ IF respawn_berries_ev = 0
       THEN UNCHANGED <<commands, berries_collected>>
       ELSE /\ berries_collected' = [yellow_berries |-> 0, purple_berries |-> 0]
            /\ commands' = commands \o respawn_commands
    /\ pending' = pending \ {"handle_respawn_berries_event"}
    /\ UNCHANGED <<players, ship_team, free_berries, queen_deaths, game_settings,
                   collision_events, attack_cursor, ev_knockback,
                   ev_spawn_players, ev_win, berry_cells, berries, gates, ship_x,
                   tick>>
    /\ UNCHANGED match_vars
    /\ UNCHANGED spawn_vars

\* the physics step reports collisions of entities that are in the world
colliding(evs) ==
    \A i \in 1..Len(evs) :
        \A e \in {evs[i].entity1, evs[i].entity2} :
            \/ IsPlayer(players, e)
            \/ IsFreeBerry(e)
            \/ e \in DOMAIN berry_cells

\* the Update schedule of the frame begins with the collisions of the frame
begin_update(systems, alphabet) ==
    /\ pending = BeforeUpdate
    /\ tick < MaxTicks
    /\ tick' = tick + 1
    /\ pending' = systems
    /\ collision_events' \in {evs \in TouchSeqs(alphabet) : colliding(evs)}
    /\ attack_cursor' = 0
    /\ UNCHANGED <<players, ship_team, free_berries, queen_deaths, game_settings,
                   commands, ev_knockback, ev_spawn_players, ev_win,
                   berries_collected, berry_cells, berries, gates, ship_x>>
    /\ UNCHANGED match_vars
    /\ UNCHANGED spawn_vars

----------------------------------------------------------------------------
(* The respawn specification: berries_to_win has just been set and the     *)
(* RespawnBerriesEvent sent; the cells of the setting before are in the    *)
(* world, Yellow's first cell empty or occupied; the Yellow worker p1,     *)
(* with or without a berry, and the berry-less Purple worker p2 are among  *)
(* a free berry and the cells.                                             *)

RespawnSystems ==
    {"handle_respawn_berries_event", "put_berries_in_cells", "grab_berries"}

RespawnTouches ==
    {Started("c1", "p1"), Started("p1", "c3"), Started("b1", "p1"),
     Started("p2", "b1")}

\* the cells that a layout for berries_to_win leaves in an empty world
respawned_cells(berries_to_win) ==
    LET cmds == cell_layout(berries_to_win, {})
    IN  [c \in {cmds[i].entity : i \in DOMAIN cmds} |->
            [team |-> cmds[CHOOSE i \in DOMAIN cmds : cmds[i].entity = c].team,
             berry |-> FALSE, white |-> FALSE]]

InitRespawn ==
    /\ \E n \in 1..MaxBerriesToWin :
          game_settings = [queen_lives |-> DEFAULT_QUEEN_LIVES, berries_to_win |-> n]
    /\ \E m \in 1..MaxBerriesToWin, occupied \in BOOLEAN :
          /\ berry_cells = [respawned_cells(m) EXCEPT !["c1"].berry = occupied,
                                                      !["c1"].white = occupied]
          /\ berries_collected = [yellow_berries |-> IF occupied THEN 1 ELSE 0,
                                  purple_berries |-> 0]
    /\ \E w1 \in WorkerRoles :
          players =
              [p1 |-> RoundPlayer(MakePlayer("p1", w1, "Yellow", "Right", FALSE, 0, 0)),
               p2 |-> RoundPlayer(MakePlayer("p2", CHOOSE r \in WorkerRoles : ~r.berry,
                                             "Purple", "Left", FALSE,
                                             WORKER_RENDER_WIDTH, 0))]
    /\ berries = [b1 |-> [exists |-> TRUE]]
    /\ free_berries \in {<<>>, << [x |-> 0, y |-> 0] >>}
    /\ respawn_berries_ev = 2
    /\ collision_events \in TouchSeqs(RespawnTouches)
    /\ colliding(collision_events)
    /\ pending = RespawnSystems
    /\ tick = 1
    /\ state = "Join"
    /\ next_state = NoState
    /\ joined_players = joined(players)
    /\ contact_force_events = <<>>
    /\ spawners = <<>>
    /\ next_game_timers = <<>>
    /\ win_texts = <<>>
    /\ ship_team = NoTeam
    /\ ship_x = 0
    /\ queen_deaths = [yellow_deaths |-> 0, purple_deaths |-> 0]
    /\ attack_cursor = 0
    /\ commands = <<>>
    /\ ev_knockback = <<>>
    /\ ev_spawn_players = <<>>
    /\ ev_win = <<>>
    /\ gates = <<>>

NextRespawn ==
    \/ handle_respawn_berries_event
    \/ put_berries_in_cells
    \/ grab_berries
    \/ apply_deferred
    \/ state_transition
    \/ begin_update(RespawnSystems, RespawnTouches)

SpecRespawn == InitRespawn /\ [][NextRespawn]_vars


----------------------------------------------------------------------------
(* Claims about the berry respawn, under SpecRespawn.                      *)

RespawnStep ==
    /\ "handle_respawn_berries_event" \in pending
    /\ "handle_respawn_berries_event" \notin pending'

CellsOf(t) == {c \in DOMAIN berry_cells : berry_cells[c].team = t}

\* the handler has acted in this run and every command of the run is applied
RespawnHandled == EndOfTick /\ respawn_berries_ev > 0

C33_WitnessOccupied ==
    /\ RespawnHandled
    /\ tick = 1
    /\ game_settings.berries_to_win = 1
    /\ DOMAIN berry_cells \cap {"c1", "c2", "c3"} = {}
    /\ Cardinality(DOMAIN berry_cells) = 2


----------------------------------------------------------------------------
\* the SpawnPlayerEvents of this run for the controller of player e
RespawnsOf(e) ==
    {i \in 1..Len(ev_spawn_players) :
        ev_spawn_players[i].gamepad = players[e].gamepad}

\* C34: a player is killed at most once per death: when players_attack has
\* read the collisions of a tick, every player it has killed, by however
\* many events, has exactly one SpawnPlayerEvent and at most one dropped berry
C34_KilledOncePerDeath ==
    [][AttackReturnStep =>
          \A e \in Killed :
              /\ Cardinality(RespawnsOf(e)) = 1
              /\ Cardinality(BerriesDroppedAt(commands, players[e].x, players[e].y))
                    <= 1]_vars


----------------------------------------------------------------------------
\* the grabs of free berry b among the commands
GrabsOf(cmds, b) ==
    {i \in 1..Len(cmds) : cmds[i] = [op |-> "despawn", entity |-> b]}

\* C35: each free berry is grabbed by at most one player in a tick: however
\* many berry-less workers start colliding with it, grab_berries gives the
\* Berry marker and a held berry to as many players as it takes free berries
\* out of the world
C35_BerryGrabbedOnce ==
    [][GrabStep =>
          /\ \A b \in DOMAIN berries : Cardinality(GrabsOf(NewCommands, b)) <= 1
          /\ Cardinality(CommandsOf(NewCommands, "insert_berry"))
                = Cardinality({b \in DOMAIN berries : GrabsOf(NewCommands, b) # {}})]_vars


----------------------------------------------------------------------------
OccupiedCells(t) == {c \in CellsOf(t) : berry_cells[c].berry}

\* C36: between berry respawns, once the commands of a tick are applied, each
\* team's BerriesCollected counter equals the number of occupied berry cells
\* of the team, and so never exceeds the number of cells laid out for it
C36_CounterMatchesCells ==
    EndOfTick =>
        \A t \in Team :
            /\ Collected(berries_collected, t) = Cardinality(OccupiedCells(t))
            /\ Collected(berries_collected, t) <= Cardinality(CellsOf(t))


----------------------------------------------------------------------------
\* the queens of team t: the live players with the Queen marker, the queen
\* spawns that are queued and the queen respawns that are pending
QueensOf(t) ==
    Cardinality({e \in DOMAIN players :
                    players[e].exists /\ players[e].queen /\ players[e].team = t})
    + Cardinality({i \in CommandsOf(commands, "spawn_player") :
                    commands[i].player.queen /\ commands[i].player.team = t})
    + Cardinality({i \in 1..Len(ev_spawn_players) :
                    ev_spawn_players[i].is_queen /\ ev_spawn_players[i].team = t})
    + Cardinality({i \in 1..Len(spawners) :
                    /\ spawners[i].exists
                    /\ spawners[i].event.is_queen
                    /\ spawners[i].event.team = t})

\* C37: each team has at most one queen, live or waiting to respawn, once the
\* commands of a tick are applied, also when two controllers join one team in
\* the same tick
C37_OneQueenPerTeam ==
    (EndOfTick /\ state = "Join") => \A t \in Team : QueensOf(t) <= 1


----------------------------------------------------------------------------
\* C38: the outcome of players_attack for two players of different teams does
\* not depend on the order of the two entities in the collision event: for
\* every collision-start of the tick, resolving (entity1, entity2) and
\* resolving (entity2, entity1) select the same victim and send the same
\* KnockBackEvents
C38_OrderOfEntitiesIrrelevant ==
    \A i \in 1..Len(collision_events) :
        LET e1 == collision_events[i].entity1
            e2 == collision_events[i].entity2
        IN  (/\ collision_events[i].kind = "Started"
             /\ IsPlayer(players, e1) /\ IsPlayer(players, e2)
             /\ ~same_team(players[e1], players[e2]))
                => resolve(players, e1, e2) = resolve(players, e2, e1)


----------------------------------------------------------------------------
\* the players of the event that the step kills
VictimsOfStep ==
    {q \in {Ev.entity1, Ev.entity2} :
        /\ resolve(players, Ev.entity1, Ev.entity2).killed = <<q>>
        /\ ~players[q].invincible}

\* C39: when players_attack kills a player without the Queen marker, a
\* worker or a flier promoted at a gate, both QueenDeaths counters are
\* unchanged and the one SpawnPlayerEvent sent has is_queen false, so that
\* spawn_players builds a worker from it; a counter changes and an event has
\* is_queen only when the victim has the Queen marker
C39_OnlyQueensCount ==
    [][(AttackStep /\ OpposingPlayersCollide) =>
          \A q \in VictimsOfStep :
              /\ ~players[q].queen =>
                    /\ queen_deaths' = queen_deaths
                    /\ NewSpawnEvents =
                          << [team |-> players[q].team, is_queen |-> FALSE,
                              gamepad |-> players[q].gamepad,
                              delay |-> RESPAWN_DELAY, start_invincible |-> TRUE] >>
                    /\ ~player_bundle(NewSpawnEvents[1]).wings
                    /\ ~player_bundle(NewSpawnEvents[1]).queen
              /\ players[q].queen =>
                    /\ queen_deaths' # queen_deaths
                    /\ Len(NewSpawnEvents) = 1
                    /\ NewSpawnEvents[1].is_queen
                    /\ player_bundle(NewSpawnEvents[1]).queen]_vars

\* a flier without the Queen marker has been killed: no death is counted
C39_Witness ==
    /\ AttackHandledOne
    /\ \E e \in Killed : players[e].wings /\ ~players[e].queen
    /\ Len(ev_spawn_players) = 1
    /\ ~ev_spawn_players[1].is_queen
    /\ queen_deaths = [yellow_deaths |-> 0, purple_deaths |-> 0]

\* a worker has been killed: no death is counted
C39_WitnessWorker ==
    /\ AttackHandledOne
    /\ \E e \in Killed : ~players[e].wings
    /\ Len(ev_spawn_players) = 1
    /\ ~ev_spawn_players[1].is_queen
    /\ queen_deaths = [yellow_deaths |-> 0, purple_deaths |-> 0]

============================================================================
